---- MODULE Spec2Model ----
(***************************************************************************)
(* ChordGen: the chord-progression engine (music theory tables, voicing,    *)
(* template-driven generation), the bassline, melody and chord pattern      *)
(* generators, the MIDI chord track, the application reducer that edits the *)
(* settings and the Main and Bridge progressions, and the playback controls *)
(* of a progression row and of the full piano roll.                         *)
(*                                                                          *)
(* Conventions                                                              *)
(*  - Source arrays are 0-based; TLA+ sequences are 1-based.  Indices that  *)
(*    the program passes around (sourceIdx, insertIndex, ...) keep their    *)
(*    0-based source value and are shifted only where a sequence is read.   *)
(*  - A number of beats is an exact rational <<n, d>> in lowest terms       *)
(*    (d > 0).  Every duration the program computes here is a dyadic        *)
(*    rational far inside the exact range of an IEEE double.                *)
(*  - Math.random() is a value r / RandDen with r in 0 .. RandDen-1, read   *)
(*    from a random source: a non-empty sequence of such r used cyclically, *)
(*    the k-th call of Math.random() reading entry ((k-1) mod length)+1.    *)
(*  - generateId() reads one value of the random source; the ids it makes   *)
(*    are taken to be distinct (7 base-36 digits), so a progression id is   *)
(*    modelled as a fresh token.  A chord's id is read by no code modelled  *)
(*    here and is left out of the chord record.                             *)
(***************************************************************************)
EXTENDS Integers, Sequences, FiniteSets, TLC

VARIABLES
    state,      \* AppState: settings, mainProgression, bridgeProgressions; in
                \* SpecPlayback and SpecPianoRoll the component that plays
    idCounter,  \* number of progression ids (playbacks) handed out so far
    ops,        \* number of user operations performed (bounded)
    last,       \* the last operation: its name, its payload, the state before it
    call        \* the last call of a pure function: name, arguments, result

vars == <<state, idCounter, ops, last, call>>

----------------------------------------------------------------------------
(* General helpers *)

Abs(x) == IF x < 0 THEN -x ELSE x

Min2(a, b) == IF a < b THEN a ELSE b

Max2(a, b) == IF a > b THEN a ELSE b

\* seq[i] for a 0-based index i
At0(seq, i) == seq[i + 1]

\* `const x = v; return F(x)`: v is evaluated once and F applied to its value
Bind(v, F(_)) == CHOOSE y \in {F(x) : x \in {v}} : TRUE

\* Array.prototype.indexOf / findIndex on a sequence: 0-based, -1 when absent
RECURSIVE IndexOfFrom(_, _, _)
IndexOfFrom(seq, x, i) ==
    IF i > Len(seq) THEN -1
    ELSE IF seq[i] = x THEN i - 1
    ELSE IndexOfFrom(seq, x, i + 1)

IndexOf(seq, x) == IndexOfFrom(seq, x, 1)

SeqIncludes(seq, x) == \E i \in 1..Len(seq) : seq[i] = x

RECURSIVE SumSeq(_)
SumSeq(seq) == IF seq = <<>> THEN 0 ELSE Head(seq) + SumSeq(Tail(seq))

\* insert x into an ascending sequence, after the elements equal to it (stable)
RECURSIVE InsertAsc(_, _)
InsertAsc(seq, x) ==
    IF seq = <<>> THEN <<x>>
    ELSE IF x < Head(seq) THEN <<x>> \o seq
    ELSE <<Head(seq)>> \o InsertAsc(Tail(seq), x)

\* [...a].sort((a, b) => a - b)
RECURSIVE SortAsc(_)
SortAsc(seq) ==
    IF seq = <<>> THEN <<>>
    ELSE InsertAsc(SortAsc(SubSeq(seq, 1, Len(seq) - 1)), seq[Len(seq)])

\* Array.prototype.splice(i, 1): remove the element at 0-based index i
\* (an index at or past the end removes nothing)
SpliceRemove(seq, i) ==
    IF i >= Len(seq) THEN seq
    ELSE SubSeq(seq, 1, i) \o SubSeq(seq, i + 2, Len(seq))

\* Array.prototype.splice(i, 0, x): insert x before 0-based index i
\* (an index past the end appends)
SpliceInsert(seq, i, x) ==
    LET at == Min2(i, Len(seq))
    IN  SubSeq(seq, 1, at) \o <<x>> \o SubSeq(seq, at + 1, Len(seq))

----------------------------------------------------------------------------
(* Exact rationals for beat counts *)

RECURSIVE Gcd(_, _)
Gcd(a, b) == IF b = 0 THEN a ELSE Gcd(b, a % b)

\* n / d in lowest terms, d > 0
Rat(n, d) ==
    LET g == Gcd(Abs(n), d)
    IN  <<n \div g, d \div g>>

RInt(n) == <<n, 1>>

RLess(a, b) == a[1] * b[2] < b[1] * a[2]

RLeq(a, b) == a[1] * b[2] <= b[1] * a[2]

RAdd(a, b) == Rat(a[1] * b[2] + b[1] * a[2], a[2] * b[2])

RHalf(a) == Rat(a[1], a[2] * 2)

\* Math.max / Math.min on two numbers
RMax(a, b) == IF RLess(a, b) THEN b ELSE a

RMin(a, b) == IF RLess(b, a) THEN b ELSE a

----------------------------------------------------------------------------
(* Music theory core *)

NOTE_NAMES == <<"C", "C#", "D", "D#", "E", "F", "F#", "G", "G#", "A", "A#", "B">>

NoteNames == {NOTE_NAMES[i] : i \in 1..12}

\* NOTE_TO_MIDI: octave-4 pitch of a note name
NOTE_TO_MIDI(note) == 60 + IndexOf(NOTE_NAMES, note)

SCALE_INTERVALS(scale) ==
    IF scale = "major" THEN <<0, 2, 4, 5, 7, 9, 11>>
    ELSE <<0, 2, 3, 5, 7, 8, 10>>

ScaleTypes == {"major", "minor"}

Qualities ==
    {"maj", "min", "dim", "aug", "maj7", "min7", "7", "dim7", "m7b5",
     "maj9", "min9", "9", "sus2", "sus4", "add9",
     "maj11", "min11", "11", "maj13", "min13", "13"}

CHORD_INTERVALS(quality) ==
    CASE quality = "maj"   -> <<0, 4, 7>>
      [] quality = "min"   -> <<0, 3, 7>>
      [] quality = "dim"   -> <<0, 3, 6>>
      [] quality = "aug"   -> <<0, 4, 8>>
      [] quality = "maj7"  -> <<0, 4, 7, 11>>
      [] quality = "min7"  -> <<0, 3, 7, 10>>
      [] quality = "7"     -> <<0, 4, 7, 10>>
      [] quality = "dim7"  -> <<0, 3, 6, 9>>
      [] quality = "m7b5"  -> <<0, 3, 6, 10>>
      [] quality = "maj9"  -> <<0, 4, 7, 11, 14>>
      [] quality = "min9"  -> <<0, 3, 7, 10, 14>>
      [] quality = "9"     -> <<0, 4, 7, 10, 14>>
      [] quality = "sus2"  -> <<0, 2, 7>>
      [] quality = "sus4"  -> <<0, 5, 7>>
      [] quality = "add9"  -> <<0, 4, 7, 14>>
      [] quality = "maj11" -> <<0, 4, 11, 14, 17>>
      [] quality = "min11" -> <<0, 3, 10, 14, 17>>
      [] quality = "11"    -> <<0, 10, 14, 17>>
      [] quality = "maj13" -> <<0, 4, 11, 14, 21>>
      [] quality = "min13" -> <<0, 3, 10, 14, 21>>
      [] quality = "13"    -> <<0, 4, 10, 14, 21>>

\* The characters of a quality's name, for String.prototype.includes
QualityChars(quality) ==
    CASE quality = "maj"   -> <<"m", "a", "j">>
      [] quality = "min"   -> <<"m", "i", "n">>
      [] quality = "dim"   -> <<"d", "i", "m">>
      [] quality = "aug"   -> <<"a", "u", "g">>
      [] quality = "maj7"  -> <<"m", "a", "j", "7">>
      [] quality = "min7"  -> <<"m", "i", "n", "7">>
      [] quality = "7"     -> <<"7">>
      [] quality = "dim7"  -> <<"d", "i", "m", "7">>
      [] quality = "m7b5"  -> <<"m", "7", "b", "5">>
      [] quality = "maj9"  -> <<"m", "a", "j", "9">>
      [] quality = "min9"  -> <<"m", "i", "n", "9">>
      [] quality = "9"     -> <<"9">>
      [] quality = "sus2"  -> <<"s", "u", "s", "2">>
      [] quality = "sus4"  -> <<"s", "u", "s", "4">>
      [] quality = "add9"  -> <<"a", "d", "d", "9">>
      [] quality = "maj11" -> <<"m", "a", "j", "1", "1">>
      [] quality = "min11" -> <<"m", "i", "n", "1", "1">>
      [] quality = "11"    -> <<"1", "1">>
      [] quality = "maj13" -> <<"m", "a", "j", "1", "3">>
      [] quality = "min13" -> <<"m", "i", "n", "1", "3">>
      [] quality = "13"    -> <<"1", "3">>

\* quality.includes(sub), sub given as its characters
QualityIncludes(quality, sub) ==
    LET s == QualityChars(quality)
    IN  \E i \in 0..(Len(s) - Len(sub)) : SubSeq(s, i + 1, i + Len(sub)) = sub

\* getScaleNotes(key)
getScaleNotes(key) ==
    LET rootIndex == IndexOf(NOTE_NAMES, key.root)
        intervals == SCALE_INTERVALS(key.scale)
    IN  [i \in 1..Len(intervals) |-> At0(NOTE_NAMES, (rootIndex + intervals[i]) % 12)]

\* getScaleDegreeNote(key, degree), degree 1-based
getScaleDegreeNote(key, degree) ==
    LET scaleNotes == getScaleNotes(key)
    IN  At0(scaleNotes, (degree - 1) % Len(scaleNotes))

Keys == [root : NoteNames, scale : ScaleTypes]

----------------------------------------------------------------------------
(* Voicing engine *)

\* previousNotes = null; the code treats null and an empty array alike
\* (`previousNotes && previousNotes.length > 1`, `!previousNotes || length === 0`)
NoNotes == <<>>

\* the default targetRange of getVoicedChordNotes
DefaultRange == [low |-> 48, high |-> 72]

\* the inner loop of getVoicedChordNotes: for octave = octLo .. octHi, the pitch
\* rootMidi + interval + (octave - 4) * 12 when it lies in lo .. hi
RECURSIVE CandidateNotes(_, _, _, _, _, _)
CandidateNotes(rootMidi, interval, octave, octHi, lo, hi) ==
    IF octave > octHi THEN <<>>
    ELSE LET note == rootMidi + interval + (octave - 4) * 12
             rest == CandidateNotes(rootMidi, interval, octave + 1, octHi, lo, hi)
         IN  IF note >= lo /\ note <= hi THEN <<note>> \o rest ELSE rest

\* options.reduce((a, b) => Math.abs(a - c) < Math.abs(b - c) ? a : b) with
\* c = num / den: a later option wins a tie.  acc is the value carried so far.
RECURSIVE ReduceClosest(_, _, _, _)
ReduceClosest(acc, rest, num, den) ==
    IF rest = <<>> THEN acc
    ELSE LET b == Head(rest)
             keep == Abs(acc * den - num) < Abs(b * den - num)
         IN  ReduceClosest(IF keep THEN acc ELSE b, Tail(rest), num, den)

\* the loop of getCloseVoicing from voice i (1-based) on, result in push order
RECURSIVE CloseVoicingLoop(_, _, _, _)
CloseVoicingLoop(possibleNotes, targetRange, i, result) ==
    IF i > Len(possibleNotes) THEN result
    ELSE LET options == possibleNotes[i]
         IN  IF options = <<>>
             THEN CloseVoicingLoop(possibleNotes, targetRange, i + 1, result)
             ELSE LET closest ==
                          IF result = <<>>
                          THEN ReduceClosest(Head(options), Tail(options),
                                             targetRange.low + targetRange.high, 2)
                          ELSE ReduceClosest(Head(options), Tail(options),
                                             SumSeq(result), Len(result))
                  IN  Bind(Append(result, closest), LAMBDA pushed :
                          CloseVoicingLoop(possibleNotes, targetRange, i + 1, pushed))

\* getCloseVoicing(possibleNotes, targetRange)
getCloseVoicing(possibleNotes, targetRange) ==
    Bind(possibleNotes, LAMBDA notes :
        SortAsc(CloseVoicingLoop(notes, targetRange, 1, <<>>)))

\* the first option with the least |option - target| (strict < keeps the first)
RECURSIVE BestOption(_, _, _)
BestOption(best, rest, target) ==
    IF rest = <<>> THEN best
    ELSE LET option == Head(rest)
         IN  BestOption(IF Abs(option - target) < Abs(best - target) THEN option ELSE best,
                        Tail(rest), target)

\* the loop of getSmoothedVoicing from voice i (0-based, as in the code) on
RECURSIVE SmoothedVoicingLoop(_, _, _, _, _, _)
SmoothedVoicingLoop(possibleNotes, sortedPrev, i, result, usedOptions, usedPrevNotes) ==
    IF i >= Len(possibleNotes) THEN result
    ELSE Bind(SelectSeq(At0(possibleNotes, i), LAMBDA n : n \notin usedOptions),
              LAMBDA options :
         IF options = <<>>
         THEN SmoothedVoicingLoop(possibleNotes, sortedPrev, i + 1, result,
                                  usedOptions, usedPrevNotes)
         ELSE Bind(SelectSeq(sortedPrev, LAMBDA n : n \notin usedPrevNotes),
                   LAMBDA availablePrevNotes :
              LET centerIdx == Len(availablePrevNotes) \div 2
                  byIndex == At0(availablePrevNotes,
                                 Min2(i, Len(availablePrevNotes) - 1))
                  targetPrevNote ==
                      IF Len(availablePrevNotes) > 0
                      THEN (IF byIndex # 0 THEN byIndex
                            ELSE At0(availablePrevNotes, centerIdx))
                      ELSE At0(sortedPrev, Len(sortedPrev) \div 2)
              IN  Bind(BestOption(Head(options), options, targetPrevNote),
                       LAMBDA bestOption :
                  LET closestPrev == ReduceClosest(Head(availablePrevNotes),
                                                   Tail(availablePrevNotes), bestOption, 1)
                  IN  Bind(<<Append(result, bestOption),
                             usedOptions \cup {bestOption},
                             IF Len(availablePrevNotes) > 0
                             THEN usedPrevNotes \cup {closestPrev}
                             ELSE usedPrevNotes>>,
                           LAMBDA next :
                      SmoothedVoicingLoop(possibleNotes, sortedPrev, i + 1,
                                          next[1], next[2], next[3])))))

\* getSmoothedVoicing without the final sort
getSmoothedVoicing_Unsorted(possibleNotes, previousNotes) ==
    Bind(<<possibleNotes, SortAsc(previousNotes)>>, LAMBDA in :
        SmoothedVoicingLoop(in[1], in[2], 0, <<>>, {}, {}))

\* getSmoothedVoicing(possibleNotes, previousNotes)
getSmoothedVoicing(possibleNotes, previousNotes) ==
    Bind(<<possibleNotes, SortAsc(previousNotes)>>, LAMBDA in :
        SortAsc(SmoothedVoicingLoop(in[1], in[2], 0, <<>>, {}, {})))

\* the Drop-2 step: with 3 or more upper voices, sort them and lower the second
\* highest by an octave (the result is left in that order, not re-sorted)
DropTwo(upperVoicing) ==
    Bind(upperVoicing, LAMBDA upper :
        IF Len(upper) >= 3
        THEN LET sortedUpper == SortAsc(upper)
                 dropIdx == Len(upper) - 2
             IN  [sortedUpper EXCEPT ![dropIdx + 1] = @ - 12]
        ELSE upper)

\* the open-voicing branch of getVoicedChordNotes
OpenVoicing(rootMidi, intervals, previousNotes, targetRange) ==
    LET bassNote == rootMidi - 12
        upperIntervals == SelectSeq(intervals, LAMBDA i : i # 0)
        upperPossibleNotes ==
            [v \in 1..Len(upperIntervals) |->
                CandidateNotes(rootMidi, upperIntervals[v], 3, 6,
                               targetRange.low, targetRange.high + 12)]
        prevUpper == SelectSeq(previousNotes, LAMBDA n : n > 48)
        upperVoicing ==
            IF Len(previousNotes) > 1
            THEN getSmoothedVoicing(upperPossibleNotes,
                                    IF Len(prevUpper) > 0 THEN prevUpper ELSE previousNotes)
            ELSE getCloseVoicing(upperPossibleNotes, targetRange)
    IN  SortAsc(<<bassNote>> \o DropTwo(upperVoicing))

\* the closed branch with candidates from octave 4 alone
ClosedVoicing_OneOctave(rootMidi, intervals, previousNotes, targetRange) ==
    LET possibleNotes ==
            [v \in 1..Len(intervals) |->
                CandidateNotes(rootMidi, intervals[v], 4, 4,
                               targetRange.low, targetRange.high)]
    IN  IF Len(previousNotes) = 0
        THEN getCloseVoicing(possibleNotes, targetRange)
        ELSE getSmoothedVoicing(possibleNotes, previousNotes)

\* the default (closed) branch of getVoicedChordNotes
ClosedVoicing(rootMidi, intervals, previousNotes, targetRange) ==
    LET possibleNotes ==
            [v \in 1..Len(intervals) |->
                CandidateNotes(rootMidi, intervals[v], 2, 6,
                               targetRange.low, targetRange.high)]
    IN  IF Len(previousNotes) = 0
        THEN getCloseVoicing(possibleNotes, targetRange)
        ELSE getSmoothedVoicing(possibleNotes, previousNotes)

\* getVoicedChordNotes(root, quality, previousNotes, targetRange, useOpenVoicing)
getVoicedChordNotes(root, quality, previousNotes, targetRange, useOpenVoicing) ==
    Bind(<<NOTE_TO_MIDI(root), CHORD_INTERVALS(quality), previousNotes>>, LAMBDA in :
        IF useOpenVoicing
        THEN OpenVoicing(in[1], in[2], in[3], targetRange)
        ELSE ClosedVoicing(in[1], in[2], in[3], targetRange))


----------------------------------------------------------------------------
(* The random source *)

\* Math.random() returns r / RandDen for r in Rand
RandDen == 10

Rand == 0..(RandDen - 1)

\* the value the k-th call of Math.random() returns (k counts from 1)
Draw(rs, k) == rs[((k - 1) % Len(rs)) + 1]

\* Math.floor(Math.random() * n) at the k-th call
RandomIndex(rs, k, n) == (Draw(rs, k) * n) \div RandDen

\* generateId(): one call of Math.random(); returns the number of the next call
generateId(rs, k) == k + 1

\* pickRandom(arr): arr[Math.floor(Math.random() * arr.length)]
pickRandom(arr, rs, k) == [val |-> At0(arr, RandomIndex(rs, k, Len(arr))), k |-> k + 1]

----------------------------------------------------------------------------
(* Progression generator: tables *)

Genres ==
    {"Lo-Fi", "Neo Soul", "Jazz", "Pop", "R&B", "Rock", "EDM", "Hip Hop", "Funk",
     "House", "UK Garage", "Future Bass", "Drum & Bass", "Trance", "Techno",
     "Dubstep", "Ambient", "Bossa Nova", "Reggae", "Country", "Blues", "Gospel",
     "Metal", "Latin", "City Pop"}

Moods == {"Uplifting", "Melancholic", "Chill", "Dark", "Dreamy", "Energetic"}

\* an optional genre / mood parameter that was not passed
NoGenre == "undefined"

NoMood == "undefined"

\* PROGRESSION_TEMPLATES in source order.  The key `${genre}_${mood}` is kept as
\* the pair <<genre, mood>>: no genre or mood contains "_", so two keys are
\* equal iff both parts are, and key.startsWith(`${genre}_`) iff the first
\* part is that genre.  A template is a sequence of <<degree, quality>>.
PROGRESSION_TEMPLATES ==
    <<
     [key |-> <<"Lo-Fi", "Chill">>, bank |-> <<
        <<<<2, "min7">>, <<5, "7">>, <<1, "maj7">>, <<6, "min7">>>>,
        <<<<1, "maj9">>, <<6, "min9">>, <<2, "min7">>, <<5, "9">>>>,
        <<<<4, "maj7">>, <<3, "min7">>, <<2, "min7">>, <<1, "maj9">>>>>>],
     [key |-> <<"Lo-Fi", "Melancholic">>, bank |-> <<
        <<<<6, "min7">>, <<4, "maj7">>, <<1, "maj7">>, <<5, "7">>>>,
        <<<<2, "m7b5">>, <<5, "7">>, <<1, "min7">>, <<4, "maj7">>>>,
        <<<<1, "min9">>, <<4, "maj7">>, <<6, "min7">>, <<5, "7">>>>>>],
     [key |-> <<"Lo-Fi", "Dreamy">>, bank |-> <<
        <<<<1, "maj9">>, <<3, "min7">>, <<4, "maj9">>, <<1, "maj7">>>>,
        <<<<6, "min9">>, <<2, "min7">>, <<5, "9">>, <<1, "maj9">>>>>>],
     [key |-> <<"Neo Soul", "Chill">>, bank |-> <<
        <<<<2, "min9">>, <<5, "9">>, <<1, "maj9">>, <<1, "maj9">>>>,
        <<<<4, "maj9">>, <<3, "min9">>, <<6, "min9">>, <<2, "min7">>>>,
        <<<<1, "maj9">>, <<4, "maj7">>, <<3, "min7">>, <<6, "min9">>>>>>],
     [key |-> <<"Neo Soul", "Uplifting">>, bank |-> <<
        <<<<1, "maj9">>, <<5, "9">>, <<6, "min9">>, <<4, "maj9">>>>,
        <<<<2, "min9">>, <<5, "9">>, <<1, "maj9">>, <<6, "min7">>>>>>],
     [key |-> <<"Neo Soul", "Dreamy">>, bank |-> <<
        <<<<1, "maj9">>, <<2, "min9">>, <<3, "min7">>, <<4, "maj9">>>>,
        <<<<6, "min9">>, <<5, "9">>, <<4, "maj9">>, <<1, "maj9">>>>>>],
     [key |-> <<"Jazz", "Chill">>, bank |-> <<
        <<<<2, "min7">>, <<5, "7">>, <<1, "maj7">>, <<6, "min7">>>>,
        <<<<1, "maj7">>, <<6, "min7">>, <<2, "min7">>, <<5, "7">>>>>>],
     [key |-> <<"Jazz", "Melancholic">>, bank |-> <<
        <<<<1, "min7">>, <<4, "min7">>, <<5, "7">>, <<1, "min7">>>>,
        <<<<2, "m7b5">>, <<5, "7">>, <<1, "min7">>, <<6, "dim7">>>>>>],
     [key |-> <<"Jazz", "Uplifting">>, bank |-> <<
        <<<<1, "maj7">>, <<2, "min7">>, <<3, "min7">>, <<4, "maj7">>>>,
        <<<<1, "maj7">>, <<4, "maj7">>, <<5, "7">>, <<1, "maj7">>>>>>],
     [key |-> <<"Pop", "Uplifting">>, bank |-> <<
        <<<<1, "maj">>, <<5, "maj">>, <<6, "min">>, <<4, "maj">>>>,
        <<<<1, "maj">>, <<4, "maj">>, <<6, "min">>, <<5, "maj">>>>,
        <<<<4, "maj">>, <<1, "maj">>, <<5, "maj">>, <<6, "min">>>>>>],
     [key |-> <<"Pop", "Melancholic">>, bank |-> <<
        <<<<6, "min">>, <<4, "maj">>, <<1, "maj">>, <<5, "maj">>>>,
        <<<<1, "min">>, <<6, "maj">>, <<3, "maj">>, <<7, "maj">>>>>>],
     [key |-> <<"Pop", "Energetic">>, bank |-> <<
        <<<<1, "maj">>, <<5, "maj">>, <<6, "min">>, <<4, "maj">>>>,
        <<<<1, "maj">>, <<3, "min">>, <<4, "maj">>, <<5, "maj">>>>>>],
     [key |-> <<"Pop", "Chill">>, bank |-> <<
        <<<<1, "maj7">>, <<5, "maj">>, <<6, "min7">>, <<4, "maj7">>>>,
        <<<<1, "add9">>, <<5, "sus4">>, <<6, "min">>, <<4, "add9">>>>>>],
     [key |-> <<"R&B", "Chill">>, bank |-> <<
        <<<<1, "maj7">>, <<6, "min7">>, <<4, "maj7">>, <<5, "7">>>>,
        <<<<2, "min7">>, <<5, "7">>, <<1, "maj7">>, <<4, "maj7">>>>>>],
     [key |-> <<"R&B", "Uplifting">>, bank |-> <<
        <<<<1, "maj9">>, <<4, "maj7">>, <<5, "7">>, <<6, "min7">>>>,
        <<<<1, "maj7">>, <<5, "7">>, <<4, "maj7">>, <<1, "maj7">>>>>>],
     [key |-> <<"R&B", "Melancholic">>, bank |-> <<
        <<<<6, "min7">>, <<5, "7">>, <<4, "maj7">>, <<1, "maj7">>>>,
        <<<<2, "min7">>, <<5, "7">>, <<1, "min7">>, <<4, "min7">>>>>>],
     [key |-> <<"Rock", "Energetic">>, bank |-> <<
        <<<<1, "maj">>, <<4, "maj">>, <<5, "maj">>, <<1, "maj">>>>,
        <<<<1, "maj">>, <<5, "maj">>, <<4, "maj">>, <<1, "maj">>>>>>],
     [key |-> <<"Rock", "Dark">>, bank |-> <<
        <<<<1, "min">>, <<6, "maj">>, <<7, "maj">>, <<1, "min">>>>,
        <<<<1, "min">>, <<4, "min">>, <<5, "min">>, <<1, "min">>>>>>],
     [key |-> <<"Rock", "Uplifting">>, bank |-> <<
        <<<<1, "maj">>, <<4, "maj">>, <<1, "maj">>, <<5, "maj">>>>,
        <<<<1, "maj">>, <<5, "maj">>, <<6, "min">>, <<4, "maj">>>>>>],
     [key |-> <<"EDM", "Energetic">>, bank |-> <<
        <<<<1, "maj">>, <<5, "maj">>, <<6, "min">>, <<4, "maj">>>>,
        <<<<6, "min">>, <<4, "maj">>, <<1, "maj">>, <<5, "maj">>>>,
        <<<<1, "maj">>, <<4, "maj">>, <<6, "min">>, <<5, "maj">>>>>>],
     [key |-> <<"EDM", "Uplifting">>, bank |-> <<
        <<<<1, "maj">>, <<5, "maj">>, <<6, "min">>, <<4, "maj">>>>,
        <<<<4, "maj">>, <<1, "maj">>, <<5, "maj">>, <<6, "min">>>>,
        <<<<1, "maj">>, <<3, "min">>, <<4, "maj">>, <<5, "maj">>>>>>],
     [key |-> <<"EDM", "Dark">>, bank |-> <<
        <<<<6, "min">>, <<4, "maj">>, <<1, "maj">>, <<5, "maj">>>>,
        <<<<1, "min">>, <<6, "maj">>, <<3, "maj">>, <<7, "maj">>>>,
        <<<<6, "min">>, <<7, "maj">>, <<1, "maj">>, <<1, "maj">>>>>>],
     [key |-> <<"EDM", "Chill">>, bank |-> <<
        <<<<1, "maj7">>, <<5, "maj">>, <<6, "min7">>, <<4, "maj7">>>>,
        <<<<6, "min7">>, <<4, "maj7">>, <<1, "maj7">>, <<5, "7">>>>>>],
     [key |-> <<"Hip Hop", "Chill">>, bank |-> <<
        <<<<1, "min7">>, <<4, "min7">>, <<6, "maj7">>, <<5, "7">>>>,
        <<<<6, "min7">>, <<5, "7">>, <<4, "maj7">>, <<1, "min7">>>>,
        <<<<2, "min7">>, <<5, "7">>, <<1, "min7">>, <<1, "min7">>>>>>],
     [key |-> <<"Hip Hop", "Dark">>, bank |-> <<
        <<<<1, "min">>, <<6, "maj">>, <<7, "maj">>, <<5, "maj">>>>,
        <<<<1, "min7">>, <<1, "min7">>, <<4, "min7">>, <<5, "7">>>>,
        <<<<6, "min">>, <<7, "maj">>, <<1, "min">>, <<5, "maj">>>>>>],
     [key |-> <<"Hip Hop", "Melancholic">>, bank |-> <<
        <<<<6, "min7">>, <<4, "maj7">>, <<1, "maj7">>, <<5, "7">>>>,
        <<<<1, "min9">>, <<4, "min7">>, <<6, "maj7">>, <<5, "7">>>>,
        <<<<2, "m7b5">>, <<5, "7">>, <<1, "min7">>, <<6, "maj7">>>>>>],
     [key |-> <<"Hip Hop", "Energetic">>, bank |-> <<
        <<<<1, "min">>, <<4, "min">>, <<5, "maj">>, <<1, "min">>>>,
        <<<<6, "min">>, <<5, "maj">>, <<4, "maj">>, <<1, "min">>>>>>],
     [key |-> <<"Funk", "Energetic">>, bank |-> <<
        <<<<1, "7">>, <<4, "7">>, <<1, "7">>, <<5, "7">>>>,
        <<<<1, "9">>, <<4, "7">>, <<1, "9">>, <<1, "9">>>>,
        <<<<2, "min7">>, <<5, "7">>, <<1, "7">>, <<1, "7">>>>>>],
     [key |-> <<"Funk", "Chill">>, bank |-> <<
        <<<<1, "maj9">>, <<4, "9">>, <<1, "maj9">>, <<5, "9">>>>,
        <<<<2, "min7">>, <<5, "9">>, <<1, "maj7">>, <<4, "7">>>>,
        <<<<1, "7">>, <<6, "min7">>, <<2, "min7">>, <<5, "7">>>>>>],
     [key |-> <<"Funk", "Uplifting">>, bank |-> <<
        <<<<1, "maj7">>, <<4, "7">>, <<5, "7">>, <<1, "maj7">>>>,
        <<<<1, "9">>, <<4, "9">>, <<1, "9">>, <<5, "9">>>>,
        <<<<4, "7">>, <<1, "7">>, <<5, "7">>, <<1, "7">>>>>>],
     [key |-> <<"Funk", "Dark">>, bank |-> <<
        <<<<1, "min7">>, <<4, "min7">>, <<5, "7">>, <<1, "min7">>>>,
        <<<<1, "min7">>, <<6, "maj7">>, <<2, "m7b5">>, <<5, "7">>>>>>],
     [key |-> <<"House", "Energetic">>, bank |-> <<
        <<<<6, "min">>, <<4, "maj">>, <<1, "maj">>, <<5, "maj">>>>,
        <<<<1, "min7">>, <<5, "7">>, <<6, "maj7">>, <<4, "maj7">>>>,
        <<<<4, "maj">>, <<1, "maj">>, <<5, "maj">>, <<6, "min">>>>>>],
     [key |-> <<"House", "Uplifting">>, bank |-> <<
        <<<<1, "maj">>, <<5, "maj">>, <<6, "min">>, <<4, "maj">>>>,
        <<<<4, "maj7">>, <<5, "maj">>, <<6, "min">>, <<1, "maj">>>>,
        <<<<1, "maj">>, <<4, "maj">>, <<1, "maj">>, <<5, "maj">>>>>>],
     [key |-> <<"House", "Chill">>, bank |-> <<
        <<<<2, "min7">>, <<5, "7">>, <<1, "maj7">>, <<4, "maj7">>>>,
        <<<<1, "maj9">>, <<6, "min7">>, <<4, "maj9">>, <<5, "7">>>>,
        <<<<6, "min7">>, <<2, "min7">>, <<5, "7">>, <<1, "maj7">>>>>>],
     [key |-> <<"House", "Dreamy">>, bank |-> <<
        <<<<1, "maj7">>, <<4, "maj9">>, <<6, "min7">>, <<5, "sus4">>>>,
        <<<<4, "maj9">>, <<5, "maj">>, <<6, "min9">>, <<1, "maj7">>>>>>],
     [key |-> <<"UK Garage", "Chill">>, bank |-> <<
        <<<<1, "maj7">>, <<6, "min7">>, <<2, "min7">>, <<5, "7">>>>,
        <<<<4, "maj7">>, <<3, "min7">>, <<6, "min7">>, <<5, "7">>>>,
        <<<<1, "maj9">>, <<4, "maj7">>, <<5, "7">>, <<6, "min7">>>>>>],
     [key |-> <<"UK Garage", "Uplifting">>, bank |-> <<
        <<<<1, "maj7">>, <<5, "7">>, <<6, "min7">>, <<4, "maj7">>>>,
        <<<<4, "maj7">>, <<1, "maj7">>, <<5, "7">>, <<6, "min7">>>>,
        <<<<1, "maj">>, <<4, "maj7">>, <<6, "min7">>, <<5, "7">>>>>>],
     [key |-> <<"UK Garage", "Energetic">>, bank |-> <<
        <<<<6, "min7">>, <<5, "7">>, <<4, "maj7">>, <<1, "maj7">>>>,
        <<<<1, "maj7">>, <<4, "maj7">>, <<5, "7">>, <<5, "7">>>>,
        <<<<2, "min7">>, <<5, "7">>, <<1, "maj">>, <<6, "min7">>>>>>],
     [key |-> <<"UK Garage", "Dreamy">>, bank |-> <<
        <<<<1, "maj9">>, <<6, "min9">>, <<4, "maj9">>, <<5, "9">>>>,
        <<<<4, "maj9">>, <<5, "add9">>, <<6, "min7">>, <<1, "maj9">>>>>>],
     [key |-> <<"Future Bass", "Uplifting">>, bank |-> <<
        <<<<6, "min">>, <<4, "maj">>, <<1, "maj">>, <<5, "maj">>>>,
        <<<<1, "maj">>, <<5, "maj">>, <<6, "min">>, <<4, "maj">>>>,
        <<<<4, "maj">>, <<5, "maj">>, <<6, "min">>, <<1, "maj">>>>>>],
     [key |-> <<"Future Bass", "Energetic">>, bank |-> <<
        <<<<6, "min7">>, <<4, "maj7">>, <<1, "maj7">>, <<5, "7">>>>,
        <<<<1, "add9">>, <<5, "add9">>, <<6, "min">>, <<4, "add9">>>>,
        <<<<4, "maj">>, <<1, "maj">>, <<5, "sus4">>, <<5, "maj">>>>>>],
     [key |-> <<"Future Bass", "Dreamy">>, bank |-> <<
        <<<<1, "maj7">>, <<4, "maj9">>, <<6, "min7">>, <<5, "add9">>>>,
        <<<<6, "min9">>, <<4, "maj9">>, <<1, "maj9">>, <<5, "add9">>>>,
        <<<<4, "add9">>, <<5, "add9">>, <<6, "min7">>, <<1, "maj7">>>>>>],
     [key |-> <<"Future Bass", "Melancholic">>, bank |-> <<
        <<<<6, "min7">>, <<3, "min7">>, <<4, "maj7">>, <<1, "maj7">>>>,
        <<<<1, "min7">>, <<6, "maj7">>, <<4, "maj7">>, <<5, "7">>>>,
        <<<<6, "min">>, <<4, "maj">>, <<5, "maj">>, <<3, "min">>>>>>],
     [key |-> <<"Drum & Bass", "Chill">>, bank |-> <<
        <<<<1, "min7">>, <<4, "min7">>, <<6, "maj7">>, <<5, "7">>>>,
        <<<<6, "min7">>, <<4, "maj7">>, <<1, "maj7">>, <<5, "7">>>>,
        <<<<2, "min7">>, <<5, "7">>, <<1, "maj7">>, <<6, "min7">>>>>>],
     [key |-> <<"Drum & Bass", "Dark">>, bank |-> <<
        <<<<1, "min">>, <<6, "maj">>, <<7, "maj">>, <<5, "maj">>>>,
        <<<<1, "min7">>, <<1, "min7">>, <<4, "min7">>, <<5, "7">>>>,
        <<<<6, "min">>, <<7, "dim">>, <<1, "min">>, <<5, "7">>>>>>],
     [key |-> <<"Drum & Bass", "Uplifting">>, bank |-> <<
        <<<<1, "maj7">>, <<5, "7">>, <<6, "min7">>, <<4, "maj7">>>>,
        <<<<4, "maj7">>, <<5, "maj">>, <<6, "min7">>, <<1, "maj7">>>>>>],
     [key |-> <<"Drum & Bass", "Energetic">>, bank |-> <<
        <<<<6, "min">>, <<4, "maj">>, <<1, "maj">>, <<5, "maj">>>>,
        <<<<1, "min">>, <<4, "min">>, <<5, "maj">>, <<1, "min">>>>>>],
     [key |-> <<"Trance", "Uplifting">>, bank |-> <<
        <<<<6, "min">>, <<4, "maj">>, <<1, "maj">>, <<5, "maj">>>>,
        <<<<1, "min">>, <<6, "maj">>, <<3, "maj">>, <<7, "maj">>>>,
        <<<<4, "maj">>, <<5, "maj">>, <<6, "min">>, <<1, "maj">>>>>>],
     [key |-> <<"Trance", "Energetic">>, bank |-> <<
        <<<<1, "min">>, <<5, "maj">>, <<6, "maj">>, <<4, "maj">>>>,
        <<<<6, "min">>, <<5, "maj">>, <<4, "maj">>, <<1, "min">>>>>>],
     [key |-> <<"Trance", "Dreamy">>, bank |-> <<
        <<<<1, "maj7">>, <<5, "sus4">>, <<6, "min7">>, <<4, "maj7">>>>,
        <<<<4, "add9">>, <<5, "add9">>, <<6, "min">>, <<1, "maj7">>>>>>],
     [key |-> <<"Trance", "Melancholic">>, bank |-> <<
        <<<<6, "min">>, <<3, "min">>, <<4, "maj">>, <<1, "maj">>>>,
        <<<<1, "min">>, <<6, "maj">>, <<4, "maj">>, <<5, "maj">>>>>>],
     [key |-> <<"Techno", "Dark">>, bank |-> <<
        <<<<1, "min">>, <<1, "min">>, <<4, "min">>, <<4, "min">>>>,
        <<<<1, "min7">>, <<6, "maj">>, <<1, "min7">>, <<1, "min7">>>>,
        <<<<5, "min">>, <<1, "min">>, <<5, "min">>, <<1, "min">>>>>>],
     [key |-> <<"Techno", "Energetic">>, bank |-> <<
        <<<<1, "min">>, <<4, "min">>, <<1, "min">>, <<5, "min">>>>,
        <<<<6, "min">>, <<6, "min">>, <<4, "maj">>, <<4, "maj">>>>>>],
     [key |-> <<"Techno", "Chill">>, bank |-> <<
        <<<<1, "min7">>, <<4, "min7">>, <<1, "min7">>, <<1, "min7">>>>,
        <<<<2, "min7">>, <<5, "7">>, <<1, "min7">>, <<1, "min7">>>>>>],
     [key |-> <<"Dubstep", "Dark">>, bank |-> <<
        <<<<1, "min">>, <<6, "maj">>, <<7, "maj">>, <<5, "maj">>>>,
        <<<<1, "min">>, <<1, "min">>, <<6, "maj">>, <<6, "maj">>>>,
        <<<<6, "min">>, <<7, "dim">>, <<1, "min">>, <<5, "maj">>>>>>],
     [key |-> <<"Dubstep", "Energetic">>, bank |-> <<
        <<<<6, "min">>, <<4, "maj">>, <<1, "maj">>, <<5, "maj">>>>,
        <<<<1, "min">>, <<5, "maj">>, <<6, "maj">>, <<4, "maj">>>>>>],
     [key |-> <<"Dubstep", "Melancholic">>, bank |-> <<
        <<<<6, "min7">>, <<4, "maj7">>, <<1, "maj7">>, <<5, "7">>>>,
        <<<<1, "min7">>, <<6, "maj7">>, <<4, "maj7">>, <<5, "7">>>>>>],
     [key |-> <<"Ambient", "Dreamy">>, bank |-> <<
        <<<<1, "maj7">>, <<4, "maj9">>, <<6, "min9">>, <<5, "sus4">>>>,
        <<<<4, "add9">>, <<1, "maj7">>, <<4, "add9">>, <<1, "maj7">>>>,
        <<<<1, "maj9">>, <<1, "maj9">>, <<4, "maj9">>, <<4, "maj9">>>>>>],
     [key |-> <<"Ambient", "Chill">>, bank |-> <<
        <<<<1, "maj7">>, <<6, "min7">>, <<4, "maj7">>, <<4, "maj7">>>>,
        <<<<2, "min9">>, <<5, "add9">>, <<1, "maj9">>, <<1, "maj9">>>>>>],
     [key |-> <<"Ambient", "Melancholic">>, bank |-> <<
        <<<<6, "min9">>, <<4, "maj9">>, <<1, "maj9">>, <<5, "sus4">>>>,
        <<<<1, "min9">>, <<4, "min7">>, <<6, "maj7">>, <<5, "sus4">>>>>>],
     [key |-> <<"Bossa Nova", "Chill">>, bank |-> <<
        <<<<1, "maj7">>, <<2, "min7">>, <<3, "min7">>, <<6, "min7">>>>,
        <<<<2, "min7">>, <<5, "7">>, <<1, "maj7">>, <<6, "min7">>>>,
        <<<<1, "maj9">>, <<2, "min7">>, <<5, "7">>, <<1, "maj7">>>>>>],
     [key |-> <<"Bossa Nova", "Dreamy">>, bank |-> <<
        <<<<1, "maj9">>, <<4, "maj7">>, <<3, "min7">>, <<6, "min9">>>>,
        <<<<2, "m7b5">>, <<5, "7">>, <<1, "maj9">>, <<4, "maj7">>>>>>],
     [key |-> <<"Bossa Nova", "Uplifting">>, bank |-> <<
        <<<<1, "maj7">>, <<5, "7">>, <<6, "min7">>, <<4, "maj7">>>>,
        <<<<1, "maj7">>, <<4, "maj7">>, <<3, "min7">>, <<6, "min7">>>>>>],
     [key |-> <<"Bossa Nova", "Melancholic">>, bank |-> <<
        <<<<1, "min7">>, <<4, "min7">>, <<5, "7">>, <<1, "min7">>>>,
        <<<<2, "m7b5">>, <<5, "7">>, <<1, "min7">>, <<6, "maj7">>>>>>],
     [key |-> <<"Reggae", "Chill">>, bank |-> <<
        <<<<1, "maj">>, <<5, "maj">>, <<1, "maj">>, <<5, "maj">>>>,
        <<<<1, "maj">>, <<4, "maj">>, <<1, "maj">>, <<5, "maj">>>>,
        <<<<1, "maj7">>, <<4, "maj7">>, <<1, "maj7">>, <<5, "7">>>>>>],
     [key |-> <<"Reggae", "Uplifting">>, bank |-> <<
        <<<<1, "maj">>, <<4, "maj">>, <<5, "maj">>, <<1, "maj">>>>,
        <<<<6, "min">>, <<5, "maj">>, <<4, "maj">>, <<1, "maj">>>>>>],
     [key |-> <<"Reggae", "Melancholic">>, bank |-> <<
        <<<<1, "min">>, <<4, "min">>, <<5, "maj">>, <<1, "min">>>>,
        <<<<6, "min">>, <<4, "maj">>, <<1, "min">>, <<5, "maj">>>>>>],
     [key |-> <<"Country", "Uplifting">>, bank |-> <<
        <<<<1, "maj">>, <<4, "maj">>, <<1, "maj">>, <<5, "maj">>>>,
        <<<<1, "maj">>, <<5, "maj">>, <<6, "min">>, <<4, "maj">>>>,
        <<<<1, "maj">>, <<4, "maj">>, <<5, "maj">>, <<1, "maj">>>>>>],
     [key |-> <<"Country", "Melancholic">>, bank |-> <<
        <<<<1, "maj">>, <<6, "min">>, <<4, "maj">>, <<5, "maj">>>>,
        <<<<6, "min">>, <<4, "maj">>, <<1, "maj">>, <<5, "maj">>>>>>],
     [key |-> <<"Country", "Chill">>, bank |-> <<
        <<<<1, "maj7">>, <<4, "maj">>, <<5, "7">>, <<1, "maj">>>>,
        <<<<1, "add9">>, <<4, "add9">>, <<5, "sus4">>, <<1, "add9">>>>>>],
     [key |-> <<"Blues", "Chill">>, bank |-> <<
        <<<<1, "7">>, <<4, "7">>, <<1, "7">>, <<5, "7">>>>,
        <<<<1, "7">>, <<1, "7">>, <<4, "7">>, <<1, "7">>>>,
        <<<<1, "9">>, <<4, "7">>, <<1, "7">>, <<5, "7">>>>>>],
     [key |-> <<"Blues", "Dark">>, bank |-> <<
        <<<<1, "min7">>, <<4, "min7">>, <<1, "min7">>, <<5, "7">>>>,
        <<<<1, "min7">>, <<4, "min7">>, <<5, "7">>, <<1, "min7">>>>>>],
     [key |-> <<"Blues", "Melancholic">>, bank |-> <<
        <<<<1, "7">>, <<4, "7">>, <<5, "7">>, <<4, "7">>>>,
        <<<<6, "min7">>, <<2, "min7">>, <<5, "7">>, <<1, "7">>>>>>],
     [key |-> <<"Blues", "Uplifting">>, bank |-> <<
        <<<<1, "7">>, <<4, "7">>, <<1, "7">>, <<5, "7">>>>,
        <<<<1, "maj7">>, <<4, "7">>, <<1, "maj7">>, <<5, "7">>>>>>],
     [key |-> <<"Gospel", "Uplifting">>, bank |-> <<
        <<<<4, "maj7">>, <<5, "7">>, <<3, "min7">>, <<6, "min7">>>>,
        <<<<1, "maj">>, <<4, "maj">>, <<1, "maj">>, <<5, "maj">>>>,
        <<<<4, "maj7">>, <<3, "min7">>, <<2, "min7">>, <<5, "7">>>>>>],
     [key |-> <<"Gospel", "Melancholic">>, bank |-> <<
        <<<<1, "maj7">>, <<6, "min7">>, <<4, "maj7">>, <<5, "7">>>>,
        <<<<2, "min7">>, <<5, "7">>, <<1, "maj7">>, <<6, "min7">>>>>>],
     [key |-> <<"Gospel", "Energetic">>, bank |-> <<
        <<<<1, "maj">>, <<1, "maj">>, <<4, "maj">>, <<1, "maj">>>>,
        <<<<4, "maj">>, <<5, "maj">>, <<1, "maj">>, <<1, "maj">>>>>>],
     [key |-> <<"Gospel", "Dreamy">>, bank |-> <<
        <<<<1, "maj9">>, <<4, "maj9">>, <<5, "9">>, <<1, "maj9">>>>,
        <<<<4, "maj7">>, <<3, "min7">>, <<6, "min7">>, <<2, "min7">>>>>>],
     [key |-> <<"Metal", "Dark">>, bank |-> <<
        <<<<1, "min">>, <<6, "maj">>, <<7, "maj">>, <<1, "min">>>>,
        <<<<1, "min">>, <<2, "dim">>, <<5, "maj">>, <<1, "min">>>>,
        <<<<1, "min">>, <<4, "min">>, <<5, "min">>, <<1, "min">>>>>>],
     [key |-> <<"Metal", "Energetic">>, bank |-> <<
        <<<<1, "min">>, <<5, "maj">>, <<6, "maj">>, <<4, "maj">>>>,
        <<<<1, "min">>, <<6, "maj">>, <<3, "maj">>, <<7, "maj">>>>>>],
     [key |-> <<"Metal", "Melancholic">>, bank |-> <<
        <<<<6, "min">>, <<4, "maj">>, <<1, "maj">>, <<5, "maj">>>>,
        <<<<1, "min">>, <<4, "min">>, <<6, "maj">>, <<5, "maj">>>>>>],
     [key |-> <<"Latin", "Energetic">>, bank |-> <<
        <<<<1, "maj">>, <<4, "maj">>, <<5, "7">>, <<1, "maj">>>>,
        <<<<2, "min7">>, <<5, "7">>, <<1, "maj7">>, <<1, "maj7">>>>,
        <<<<1, "maj">>, <<6, "min">>, <<2, "min7">>, <<5, "7">>>>>>],
     [key |-> <<"Latin", "Chill">>, bank |-> <<
        <<<<1, "maj7">>, <<2, "min7">>, <<5, "7">>, <<1, "maj7">>>>,
        <<<<6, "min7">>, <<2, "min7">>, <<5, "7">>, <<1, "maj7">>>>>>],
     [key |-> <<"Latin", "Uplifting">>, bank |-> <<
        <<<<1, "maj">>, <<4, "maj">>, <<1, "maj">>, <<5, "7">>>>,
        <<<<4, "maj">>, <<5, "7">>, <<1, "maj">>, <<6, "min">>>>>>],
     [key |-> <<"Latin", "Melancholic">>, bank |-> <<
        <<<<1, "min7">>, <<4, "min7">>, <<5, "7">>, <<1, "min7">>>>,
        <<<<6, "min7">>, <<5, "7">>, <<4, "maj7">>, <<1, "min7">>>>>>],
     [key |-> <<"City Pop", "Chill">>, bank |-> <<
        <<<<1, "maj7">>, <<3, "min7">>, <<6, "min7">>, <<2, "min7">>>>,
        <<<<4, "maj7">>, <<3, "min7">>, <<2, "min7">>, <<5, "7">>>>,
        <<<<1, "maj9">>, <<6, "min7">>, <<2, "min7">>, <<5, "9">>>>>>],
     [key |-> <<"City Pop", "Uplifting">>, bank |-> <<
        <<<<1, "maj7">>, <<5, "7">>, <<6, "min7">>, <<4, "maj7">>>>,
        <<<<4, "maj7">>, <<5, "7">>, <<3, "min7">>, <<6, "min7">>>>,
        <<<<1, "maj7">>, <<2, "min7">>, <<3, "min7">>, <<4, "maj7">>>>>>],
     [key |-> <<"City Pop", "Dreamy">>, bank |-> <<
        <<<<1, "maj9">>, <<4, "maj7">>, <<3, "min7">>, <<6, "min9">>>>,
        <<<<2, "min9">>, <<5, "9">>, <<1, "maj9">>, <<6, "min7">>>>,
        <<<<4, "add9">>, <<5, "add9">>, <<6, "min7">>, <<1, "maj7">>>>>>],
     [key |-> <<"City Pop", "Melancholic">>, bank |-> <<
        <<<<6, "min7">>, <<5, "7">>, <<4, "maj7">>, <<3, "min7">>>>,
        <<<<1, "maj7">>, <<6, "min7">>, <<4, "maj7">>, <<5, "sus4">>>>,
        <<<<2, "min7">>, <<5, "7">>, <<1, "maj7">>, <<4, "maj7">>>>>>]
    >>

DEFAULT_PROGRESSIONS ==
    << <<<<1, "maj7">>, <<4, "maj7">>, <<5, "7">>, <<1, "maj7">>>>,
       <<<<2, "min7">>, <<5, "7">>, <<1, "maj7">>, <<6, "min7">>>>,
       <<<<1, "maj">>, <<5, "maj">>, <<6, "min">>, <<4, "maj">>>> >>

EXTENSION_TEMPLATES ==
    << <<<<4, "maj7">>, <<5, "7">>, <<3, "min7">>, <<6, "min7">>>>,
       <<<<2, "min7">>, <<5, "9">>, <<1, "maj9">>, <<4, "maj7">>>>,
       <<<<6, "min7">>, <<2, "min7">>, <<5, "7">>, <<1, "maj7">>>>,
       <<<<4, "maj7">>, <<4, "min7">>, <<1, "maj7">>, <<5, "7">>>>,
       <<<<5, "sus4">>, <<5, "7">>, <<1, "maj7">>, <<6, "min7">>>> >>

\* the entries of PROGRESSION_TEMPLATES under a key (at most one)
BankEntries(key) == SelectSeq(PROGRESSION_TEMPLATES, LAMBDA e : e.key = key)

RECURSIVE FlatBanks(_)
FlatBanks(entries) ==
    IF entries = <<>> THEN <<>> ELSE Head(entries).bank \o FlatBanks(Tail(entries))

\* getTemplates without the 'genre with any mood' step
getTemplates_NoGenreFallback(genre, mood) ==
    LET exact == BankEntries(<<genre, mood>>)
    IN  IF exact # <<>> THEN exact[1].bank ELSE DEFAULT_PROGRESSIONS

\* getTemplates(genre, mood)
getTemplates(genre, mood) ==
    LET exact == BankEntries(<<genre, mood>>)
        genreTemplates ==
            FlatBanks(SelectSeq(PROGRESSION_TEMPLATES, LAMBDA e : e.key[1] = genre))
    IN  IF exact # <<>> THEN exact[1].bank
        ELSE IF Len(genreTemplates) > 0 THEN genreTemplates
        ELSE DEFAULT_PROGRESSIONS

\* adjustForMinorKey(degree, quality, key)
adjustForMinorKey(degree, quality, key) ==
    IF key.scale = "minor"
    THEN CASE degree = 1 /\ quality = "maj"  -> <<1, "min">>
           [] degree = 1 /\ quality = "maj7" -> <<1, "min7">>
           [] degree = 1 /\ quality = "maj9" -> <<1, "min9">>
           [] degree = 4 /\ quality = "maj"  -> <<4, "min">>
           [] degree = 4 /\ quality = "maj7" -> <<4, "min7">>
           [] degree = 5 /\ quality = "maj"  -> <<5, "min">>
           [] degree = 6 /\ quality = "min"  -> <<6, "maj">>
           [] degree = 6 /\ quality = "min7" -> <<6, "maj7">>
           [] OTHER -> <<degree, quality>>
    ELSE <<degree, quality>>

\* ENRICHMENT_CHANCE[genre] || 0, in tenths
ENRICHMENT_CHANCE(genre) ==
    CASE genre = "Neo Soul"    -> 6
      [] genre = "Jazz"        -> 5
      [] genre = "Lo-Fi"       -> 4
      [] genre = "R&B"         -> 3
      [] genre = "Hip Hop"     -> 2
      [] genre = "Funk"        -> 3
      [] genre = "Rock"        -> 0
      [] genre = "Pop"         -> 1
      [] genre = "EDM"         -> 1
      [] genre = "House"       -> 2
      [] genre = "UK Garage"   -> 4
      [] genre = "Future Bass" -> 3
      [] genre = "Drum & Bass" -> 3
      [] genre = "Trance"      -> 1
      [] genre = "Techno"      -> 0
      [] genre = "Dubstep"     -> 1
      [] genre = "Ambient"     -> 5
      [] genre = "Bossa Nova"  -> 6
      [] genre = "Reggae"      -> 1
      [] genre = "Country"     -> 0
      [] genre = "Blues"       -> 2
      [] genre = "Gospel"      -> 4
      [] genre = "Metal"       -> 0
      [] genre = "Latin"       -> 2
      [] genre = "City Pop"    -> 5
      [] OTHER                 -> 0

\* the upgrade map of enrichChord (no entry: the empty list)
Upgrades(quality) ==
    CASE quality = "maj7" -> <<"maj9", "maj13">>
      [] quality = "min7" -> <<"min9", "min11">>
      [] quality = "7"    -> <<"9", "13">>
      [] quality = "maj9" -> <<"maj13">>
      [] quality = "min9" -> <<"min11">>
      [] quality = "9"    -> <<"13">>
      [] OTHER            -> <<>>

\* enrichChord(quality, genre): Math.random() > chance returns the quality as is
enrichChord(quality, genre, rs, k) ==
    LET chance == ENRICHMENT_CHANCE(genre)
        options == Upgrades(quality)
    IN  IF Draw(rs, k) * 10 > chance * RandDen THEN [val |-> quality, k |-> k + 1]
        ELSE IF Len(options) > 0 THEN pickRandom(options, rs, k + 1)
        ELSE [val |-> quality, k |-> k + 1]

\* CHORD_QUALITY_DISPLAY (the flat sign of 'm7b5' is written b)
CHORD_QUALITY_DISPLAY(quality) ==
    CASE quality = "maj"   -> ""
      [] quality = "min"   -> "m"
      [] quality = "maj7"  -> "maj7"
      [] quality = "min7"  -> "m7"
      [] quality = "m7b5"  -> "m7b5"
      [] quality = "min9"  -> "m9"
      [] quality = "min11" -> "m11"
      [] quality = "min13" -> "m13"
      [] OTHER             -> quality

\* getChordDisplayName(root, quality): the root and the suffix, as a pair
getChordDisplayName(root, quality) == <<root, CHORD_QUALITY_DISPLAY(quality)>>

\* the value of a field an object literal does not set
Undefined == "undefined"

openVoicingGenres == {"Jazz", "Neo Soul", "Lo-Fi"}

\* a Chord without borrowedFrom / borrowedDegree
MakeChord(root, quality, notes, durationBeats) ==
    [root |-> root, quality |-> quality, notes |-> notes,
     displayName |-> getChordDisplayName(root, quality),
     durationBeats |-> durationBeats,
     borrowedFrom |-> Undefined, borrowedDegree |-> Undefined]


----------------------------------------------------------------------------
(* Progression generator: functions.  A function that calls Math.random()    *)
(* takes the random source rs and the number k of its next call, and returns *)
(* [val |-> its result, k |-> the number of the next call after it].         *)

\* createChordFromDegree(key, degree, quality, previousNotes, genre, durationBeats)
createChordFromDegree(key, degree, quality, previousNotes, genre, durationBeats, rs, k) ==
    LET adjusted == adjustForMinorKey(degree, quality, key)
        root == getScaleDegreeNote(key, adjusted[1])
        useOpenVoicing == genre # NoGenre /\ genre \in openVoicingGenres
    IN  Bind(IF genre # NoGenre THEN enrichChord(adjusted[2], genre, rs, k)
             ELSE [val |-> adjusted[2], k |-> k],
             LAMBDA enriched :
        Bind(getVoicedChordNotes(root, enriched.val, previousNotes,
                                 DefaultRange, useOpenVoicing),
             LAMBDA notes :
            [val |-> MakeChord(root, enriched.val, notes, durationBeats),
             k |-> generateId(rs, enriched.k)]))

\* the loop of generateProgressionFromTemplate from template entry i (1-based) on
RECURSIVE TemplateLoop(_, _, _, _, _, _, _)
TemplateLoop(key, template, genre, i, chords, rs, k) ==
    IF i > Len(template) THEN [val |-> chords, k |-> k]
    ELSE LET previousNotes == IF Len(chords) > 0 THEN chords[Len(chords)].notes
                              ELSE NoNotes
         IN  Bind(createChordFromDegree(key, template[i][1], template[i][2],
                                        previousNotes, genre, RInt(4), rs, k),
                  LAMBDA c :
                 Bind(Append(chords, c.val), LAMBDA pushed :
                     TemplateLoop(key, template, genre, i + 1, pushed, rs, c.k)))

\* generateProgressionFromTemplate(key, template, label, genre); id is the
\* token generateId() returns for the progression
generateProgressionFromTemplate(key, template, label, genre, id, rs, k) ==
    Bind(TemplateLoop(key, template, genre, 1, <<>>, rs, k), LAMBDA built :
        [val |-> [id |-> id, chords |-> built.val, label |-> label],
         k |-> generateId(rs, built.k)])

\* the loop of pickMultipleRandom from i (0-based) on
RECURSIVE ShuffleLoop(_, _, _, _, _)
ShuffleLoop(result, n, i, rs, k) ==
    IF i >= n THEN [val |-> result, k |-> k]
    ELSE LET j == i + RandomIndex(rs, k, Len(result) - i)
         IN  Bind([result EXCEPT ![i + 1] = At0(result, j),
                                 ![j + 1] = At0(result, i)],
                  LAMBDA swapped : ShuffleLoop(swapped, n, i + 1, rs, k + 1))

\* pickMultipleRandom(arr, count)
pickMultipleRandom(arr, count, rs, k) ==
    Bind(arr, LAMBDA copy :
        LET n == Min2(count, Len(copy))
        IN  Bind(ShuffleLoop(copy, n, 0, rs, k), LAMBDA shuffled :
                [val |-> SubSeq(shuffled.val, 1, n), k |-> shuffled.k]))

\* the templates generateProgressions picks
SelectTemplates(genre, mood, rs, k) ==
    Bind(getTemplates(genre, mood), LAMBDA templates :
        IF Len(templates) >= 3 THEN pickMultipleRandom(templates, 3, rs, k)
        ELSE pickMultipleRandom(templates \o DEFAULT_PROGRESSIONS, 3, rs, k))

\* generateProgressions(key, genre, mood); ids are the three tokens generateId()
\* returns for Main, Bridge 1 and Bridge 2
generateProgressions(key, genre, mood, ids, rs, k) ==
    Bind(SelectTemplates(genre, mood, rs, k), LAMBDA selected :
    Bind(generateProgressionFromTemplate(key, selected.val[1], "Main", genre,
                                         ids[1], rs, selected.k), LAMBDA main :
    Bind(generateProgressionFromTemplate(key, selected.val[2], "Bridge 1", genre,
                                         ids[2], rs, main.k), LAMBDA b1 :
    Bind(generateProgressionFromTemplate(key, selected.val[3], "Bridge 2", genre,
                                         ids[3], rs, b1.k), LAMBDA b2 :
        [val |-> [main |-> main.val, bridges |-> <<b1.val, b2.val>>], k |-> b2.k]))))

\* regenerateProgression(key, genre, mood, label)
regenerateProgression(key, genre, mood, label, id, rs, k) ==
    Bind(pickRandom(getTemplates(genre, mood), rs, k), LAMBDA template :
        generateProgressionFromTemplate(key, template.val, label, genre, id, rs,
                                        template.k))

\* the midpoint rounded down
RoundedMidpoint_Floor(a, b) == (a + b) \div 2

\* Math.round((a + b) / 2) for pitches a, b >= 0 (a half rounds up)
RoundedMidpoint(a, b) == (a + b + 1) \div 2

\* distances.sort((a, b) => a.dist - b.dist)[0].note: the sort is stable, so
\* this is the first scale note, in scale order, at the least distance
NearestScaleNote(scaleNotes, midpoint) ==
    LET dist(i) == Abs(NOTE_TO_MIDI(scaleNotes[i]) - midpoint)
        first == CHOOSE i \in 1..Len(scaleNotes) :
                    /\ \A j \in 1..Len(scaleNotes) : dist(i) <= dist(j)
                    /\ \A j \in 1..(i - 1) : dist(j) > dist(i)
    IN  scaleNotes[first]

\* the root generatePassingChord chooses
PassingRoot(prevRoot, nextRoot, key) ==
    Bind(<<getScaleNotes(key),
           RoundedMidpoint(NOTE_TO_MIDI(prevRoot), NOTE_TO_MIDI(nextRoot))>>,
         LAMBDA in :
        LET scaleNotes == in[1]
            midpoint == in[2]
            midpointNote == At0(NOTE_NAMES, midpoint % 12)
        IN  IF SeqIncludes(scaleNotes, midpointNote) THEN midpointNote
            ELSE NearestScaleNote(scaleNotes, midpoint))

\* PassingQuality with the two tests in the other order: a minor neighbor
\* wins over a dominant 7
PassingQuality_MinorWins(prevQuality, nextQuality) ==
    LET min == <<"m", "i", "n">>
        q1 == IF prevQuality = "7" \/ nextQuality = "7" THEN "7" ELSE "maj7"
    IN  IF QualityIncludes(prevQuality, min) \/ QualityIncludes(nextQuality, min)
        THEN "min7" ELSE q1

\* the quality generatePassingChord chooses before enrichment
PassingQuality(prevQuality, nextQuality) ==
    LET min == <<"m", "i", "n">>
        q1 == IF QualityIncludes(prevQuality, min) \/ QualityIncludes(nextQuality, min)
              THEN "min7" ELSE "maj7"
    IN  IF prevQuality = "7" \/ nextQuality = "7" THEN "7" ELSE q1

\* generatePassingChord(prevChord, nextChord, key, genre)
generatePassingChord(prevChord, nextChord, key, genre, rs, k) ==
    LET useOpenVoicing == genre \in openVoicingGenres
    IN  Bind(<<prevChord, nextChord>>, LAMBDA in :
        Bind(PassingRoot(in[1].root, in[2].root, key), LAMBDA passingRoot :
        Bind(enrichChord(PassingQuality(in[1].quality, in[2].quality), genre, rs, k),
             LAMBDA passingQuality :
        Bind(getVoicedChordNotes(passingRoot, passingQuality.val, in[1].notes,
                                 DefaultRange, useOpenVoicing), LAMBDA notes :
            [val |-> MakeChord(passingRoot, passingQuality.val, notes, RInt(2)),
             k |-> generateId(rs, passingQuality.k)]))))

\* generateSingleChord drawing among all the candidate qualities, the old
\* chord's included
generateSingleChord_NoExclusion(oldChord, prevNotes, key, genre, rs, k) ==
    LET baseQualities ==
            IF key.scale = "minor"
            THEN <<"min7", "min9", "min11", "m7b5", "7", "dim7">>
            ELSE <<"maj7", "maj9", "maj13", "7", "9", "13", "min7", "min9">>
        useOpenVoicing == genre \in openVoicingGenres
    IN  Bind(oldChord, LAMBDA old :
        LET drawn == At0(baseQualities, RandomIndex(rs, k, Len(baseQualities)))
        IN  Bind(enrichChord(drawn, genre, rs, k + 1), LAMBDA newQuality :
            Bind(getVoicedChordNotes(old.root, newQuality.val, prevNotes,
                                     DefaultRange, useOpenVoicing), LAMBDA notes :
                [val |-> MakeChord(old.root, newQuality.val, notes, old.durationBeats),
                 k |-> newQuality.k + 1])))

\* generateSingleChord(oldChord, prevChord, key, genre); prevNotes is
\* prevChord?.notes || null
generateSingleChord(oldChord, prevNotes, key, genre, rs, k) ==
    LET baseQualities ==
            IF key.scale = "minor"
            THEN <<"min7", "min9", "min11", "m7b5", "7", "dim7">>
            ELSE <<"maj7", "maj9", "maj13", "7", "9", "13", "min7", "min9">>
        useOpenVoicing == genre \in openVoicingGenres
    IN  Bind(oldChord, LAMBDA old :
        LET availableQualities == SelectSeq(baseQualities, LAMBDA q : q # old.quality)
            idx == RandomIndex(rs, k, Len(availableQualities))
            drawn == IF idx < Len(availableQualities) THEN At0(availableQualities, idx)
                     ELSE old.quality
        IN  Bind(enrichChord(drawn, genre, rs, k + 1), LAMBDA newQuality :
            Bind(getVoicedChordNotes(old.root, newQuality.val, prevNotes,
                                     DefaultRange, useOpenVoicing), LAMBDA notes :
                [val |-> MakeChord(old.root, newQuality.val, notes, old.durationBeats),
                 k |-> newQuality.k + 1])))


----------------------------------------------------------------------------
(* Modal interchange and progression extension *)

\* [semitone offset, quality, degree label]
MAJOR_TO_MINOR_BORROWABLE ==
    << <<3, "maj7", "bIII">>, <<8, "maj7", "bVI">>, <<10, "7", "bVII">>,
       <<5, "min7", "iv">>, <<2, "m7b5", "iio">> >>

MINOR_TO_MAJOR_BORROWABLE ==
    << <<5, "maj7", "IV">>, <<7, "7", "V">>, <<2, "min7", "II">> >>

\* getBorrowableChords reading the list of the other scale
getBorrowableChords_OtherList(key) ==
    LET rootIndex == IndexOf(NOTE_NAMES, key.root)
        borrowableList == IF key.scale = "major" THEN MINOR_TO_MAJOR_BORROWABLE
                          ELSE MAJOR_TO_MINOR_BORROWABLE
        borrowedFrom == IF key.scale = "major" THEN "parallel-minor"
                        ELSE "parallel-major"
    IN  [i \in 1..Len(borrowableList) |->
            [root |-> At0(NOTE_NAMES, (rootIndex + borrowableList[i][1]) % 12),
             quality |-> borrowableList[i][2],
             degree |-> borrowableList[i][3],
             borrowedFrom |-> borrowedFrom]]

\* getBorrowableChords(key)
getBorrowableChords(key) ==
    LET rootIndex == IndexOf(NOTE_NAMES, key.root)
        borrowableList == IF key.scale = "major" THEN MAJOR_TO_MINOR_BORROWABLE
                          ELSE MINOR_TO_MAJOR_BORROWABLE
        borrowedFrom == IF key.scale = "major" THEN "parallel-minor"
                        ELSE "parallel-major"
    IN  [i \in 1..Len(borrowableList) |->
            [root |-> At0(NOTE_NAMES, (rootIndex + borrowableList[i][1]) % 12),
             quality |-> borrowableList[i][2],
             degree |-> borrowableList[i][3],
             borrowedFrom |-> borrowedFrom]]

\* getRandomBorrowableChord(key)
getRandomBorrowableChord(key, rs, k) == pickRandom(getBorrowableChords(key), rs, k)

\* generateModalInterchangeChord(oldChord, prevChord, key, genre); prevNotes is
\* prevChord?.notes || null
generateModalInterchangeChord(oldChord, prevNotes, key, genre, rs, k) ==
    LET useOpenVoicing == genre \in openVoicingGenres
    IN  Bind(getRandomBorrowableChord(key, rs, k), LAMBDA borrowed :
        Bind(getVoicedChordNotes(borrowed.val.root, borrowed.val.quality, prevNotes,
                                 DefaultRange, useOpenVoicing), LAMBDA notes :
            [val |-> [MakeChord(borrowed.val.root, borrowed.val.quality, notes,
                                oldChord.durationBeats)
                        EXCEPT !.borrowedFrom = borrowed.val.borrowedFrom,
                               !.borrowedDegree = borrowed.val.degree],
             k |-> borrowed.k + 1]))

\* the template generateExtensionChords draws
ExtensionTemplate(genre, mood, rs, k) ==
    LET genreTemplates ==
            BankEntries(<<IF genre # NoGenre THEN genre ELSE "Pop",
                          IF mood # NoMood THEN mood ELSE "Chill">>)
    IN  IF genreTemplates # <<>> /\ Len(genreTemplates[1].bank) > 0
        THEN pickRandom(genreTemplates[1].bank, rs, k)
        ELSE pickRandom(EXTENSION_TEMPLATES, rs, k)

\* the loop of generateExtensionChords from i (0-based) on
RECURSIVE ExtensionLoop(_, _, _, _, _, _, _, _, _, _)
ExtensionLoop(template, key, genre, duration, chordsToAdd, i, newChords, prevNotes, rs, k) ==
    IF i >= chordsToAdd THEN [val |-> newChords, k |-> k]
    ELSE LET entry == At0(template, i % Len(template))
             adjusted == adjustForMinorKey(entry[1], entry[2], key)
             root == getScaleDegreeNote(key, adjusted[1])
             useOpenVoicing == genre # NoGenre /\ genre \in openVoicingGenres
         IN  Bind(IF genre # NoGenre THEN enrichChord(adjusted[2], genre, rs, k)
                  ELSE [val |-> adjusted[2], k |-> k],
                  LAMBDA finalQuality :
             Bind(getVoicedChordNotes(root, finalQuality.val, prevNotes,
                                      DefaultRange, useOpenVoicing), LAMBDA notes :
             Bind(Append(newChords, MakeChord(root, finalQuality.val, notes, duration)),
                  LAMBDA pushed :
                 ExtensionLoop(template, key, genre, duration, chordsToAdd, i + 1,
                               pushed, notes, rs, generateId(rs, finalQuality.k)))))

\* generateExtensionChords adding 4 chords whatever the room left
generateExtensionChords_AlwaysFour(existingChords, key, genre, mood, rs, k) ==
    Bind(existingChords, LAMBDA existing :
        IF Len(existing) >= 8 THEN [val |-> <<>>, k |-> k]
        ELSE LET hasLast == Len(existing) > 0
                 lastChord == existing[Len(existing)]
                 duration == IF hasLast /\ lastChord.durationBeats[1] # 0
                             THEN lastChord.durationBeats ELSE RInt(4)
                 prevNotes == IF hasLast THEN lastChord.notes ELSE NoNotes
             IN  Bind(ExtensionTemplate(genre, mood, rs, k), LAMBDA template :
                     ExtensionLoop(template.val, key, genre, duration, 4, 0,
                                   <<>>, prevNotes, rs, template.k)))

\* generateExtensionChords voicing the first added chord without the last
\* existing chord's notes
generateExtensionChords_NoContext(existingChords, key, genre, mood, rs, k) ==
    Bind(existingChords, LAMBDA existing :
        IF Len(existing) >= 8 THEN [val |-> <<>>, k |-> k]
        ELSE LET chordsToAdd == Min2(4, 8 - Len(existing))
                 hasLast == Len(existing) > 0
                 lastChord == existing[Len(existing)]
                 duration == IF hasLast /\ lastChord.durationBeats[1] # 0
                             THEN lastChord.durationBeats ELSE RInt(4)
             IN  Bind(ExtensionTemplate(genre, mood, rs, k), LAMBDA template :
                     ExtensionLoop(template.val, key, genre, duration, chordsToAdd, 0,
                                   <<>>, NoNotes, rs, template.k)))

\* generateExtensionChords(existingChords, key, genre, mood)
generateExtensionChords(existingChords, key, genre, mood, rs, k) ==
    Bind(existingChords, LAMBDA existing :
        IF Len(existing) >= 8 THEN [val |-> <<>>, k |-> k]
        ELSE LET chordsToAdd == Min2(4, 8 - Len(existing))
                 hasLast == Len(existing) > 0
                 lastChord == existing[Len(existing)]
                 \* lastChord?.durationBeats || 4
                 duration == IF hasLast /\ lastChord.durationBeats[1] # 0
                             THEN lastChord.durationBeats ELSE RInt(4)
                 prevNotes == IF hasLast THEN lastChord.notes ELSE NoNotes
             IN  Bind(ExtensionTemplate(genre, mood, rs, k), LAMBDA template :
                     ExtensionLoop(template.val, key, genre, duration, chordsToAdd, 0,
                                   <<>>, prevNotes, rs, template.k)))


----------------------------------------------------------------------------
(* The application state and its reducer (useChordProgression) *)

\* the id of initialState.mainProgression ('main'); generated ids are 1, 2, ...
MainInitialId == 0

initialState ==
    [settings |-> [key |-> [root |-> "C", scale |-> "major"], tempo |-> 90,
                   genre |-> "Lo-Fi", mood |-> "Chill", soundType |-> "piano"],
     mainProgression |-> [id |-> MainInitialId, chords |-> <<>>, label |-> "Main"],
     bridgeProgressions |-> <<>>]

\* state.bridgeProgressions.findIndex(p => p.id === id), 0-based, -1 when absent
BridgeIndex(s, id) ==
    IF \E i \in 1..Len(s.bridgeProgressions) : s.bridgeProgressions[i].id = id
    THEN (CHOOSE i \in 1..Len(s.bridgeProgressions) :
             /\ s.bridgeProgressions[i].id = id
             /\ \A j \in 1..(i - 1) : s.bridgeProgressions[j].id # id) - 1
    ELSE -1

\* findProgression(id) !== null
HasProgression(s, id) == s.mainProgression.id = id \/ BridgeIndex(s, id) # -1

\* findProgression(id), where HasProgression
findProgression(s, id) ==
    IF s.mainProgression.id = id THEN s.mainProgression
    ELSE At0(s.bridgeProgressions, BridgeIndex(s, id))

\* the progressions of a state, Main first
AllProgressions(s) == <<s.mainProgression>> \o s.bridgeProgressions

\* case 'SET_KEY'
SetKey(s, payload) == [s EXCEPT !.settings.key = payload]

\* case 'SET_TEMPO'
SetTempo(s, payload) == [s EXCEPT !.settings.tempo = payload]

\* case 'SET_GENRE'
SetGenre(s, payload) == [s EXCEPT !.settings.genre = payload]

\* case 'SET_MOOD'
SetMood(s, payload) == [s EXCEPT !.settings.mood = payload]

\* case 'SET_SOUND_TYPE'
SetSoundType(s, payload) == [s EXCEPT !.settings.soundType = payload]

\* case 'SET_PROGRESSIONS'
SetProgressions(s, payload) ==
    [s EXCEPT !.mainProgression = payload.main, !.bridgeProgressions = payload.bridges]

\* case 'REGENERATE_MAIN'
RegenerateMain(s, id, rs) ==
    [s EXCEPT !.mainProgression =
        regenerateProgression(s.settings.key, s.settings.genre, s.settings.mood,
                              "Main", id, rs, 1).val]

\* the label `Bridge ${bridgeIndex + 1}`
BridgeLabel(bridgeIndex) ==
    IF bridgeIndex = 0 THEN "Bridge 1"
    ELSE IF bridgeIndex = 1 THEN "Bridge 2"
    ELSE "Bridge N"

\* case 'REGENERATE_BRIDGE', for the index of an existing bridge
RegenerateBridge(s, bridgeIndex, id, rs) ==
    [s EXCEPT !.bridgeProgressions[bridgeIndex + 1] =
        regenerateProgression(s.settings.key, s.settings.genre, s.settings.mood,
                              BridgeLabel(bridgeIndex), id, rs, 1).val]

\* SwappedChords with the target progression keeping its own chord
SwappedChords_OneWay(sourceChords, targetChords, same, sourceIdx, targetIdx) ==
    IF same
    THEN LET moved == SpliceInsert(SpliceRemove(sourceChords, sourceIdx),
                                   targetIdx, At0(sourceChords, sourceIdx))
         IN  [source |-> moved, target |-> moved]
    ELSE [source |-> [sourceChords EXCEPT ![sourceIdx + 1] = At0(targetChords, targetIdx)],
          target |-> targetChords]

\* SwappedChords with the same-progression case exchanging the two chords
SwappedChords_Exchange(sourceChords, targetChords, same, sourceIdx, targetIdx) ==
    LET exchanged == [sourceChords EXCEPT
                         ![sourceIdx + 1] = At0(IF same THEN sourceChords ELSE targetChords,
                                                targetIdx)]
    IN  IF same
        THEN [source |-> [exchanged EXCEPT ![targetIdx + 1] = At0(sourceChords, sourceIdx)],
              target |-> [exchanged EXCEPT ![targetIdx + 1] = At0(sourceChords, sourceIdx)]]
        ELSE [source |-> exchanged,
              target |-> [targetChords EXCEPT ![targetIdx + 1] = At0(sourceChords, sourceIdx)]]

\* the two chord lists SWAP_CHORD builds, for indices inside the lists
SwappedChords(sourceChords, targetChords, same, sourceIdx, targetIdx) ==
    LET sourceChord == At0(sourceChords, sourceIdx)
    IN  IF same
        THEN LET moved == SpliceInsert(SpliceRemove(sourceChords, sourceIdx),
                                       targetIdx, sourceChord)
             IN  [source |-> moved, target |-> moved]
        ELSE [source |-> [sourceChords EXCEPT ![sourceIdx + 1] = At0(targetChords, targetIdx)],
              target |-> [targetChords EXCEPT ![targetIdx + 1] = sourceChord]]

\* state with the chords of the first progression whose id is `id` replaced
\* (Main if it has that id, else the first such Bridge, else nothing)
WithChords(s, id, newChords) ==
    IF s.mainProgression.id = id
    THEN [s EXCEPT !.mainProgression.chords = newChords]
    ELSE IF BridgeIndex(s, id) # -1
    THEN [s EXCEPT !.bridgeProgressions[BridgeIndex(s, id) + 1].chords = newChords]
    ELSE s

\* case 'SWAP_CHORD'
SwapChord(s, payload) ==
    IF ~HasProgression(s, payload.sourceProgId) \/ ~HasProgression(s, payload.targetProgId)
    THEN s
    ELSE LET same == payload.sourceProgId = payload.targetProgId
             new == SwappedChords(findProgression(s, payload.sourceProgId).chords,
                                  findProgression(s, payload.targetProgId).chords,
                                  same, payload.sourceIdx, payload.targetIdx)
             afterSource == WithChords(s, payload.sourceProgId, new.source)
         IN  IF same THEN afterSource
             ELSE WithChords(afterSource, payload.targetProgId, new.target)

\* state with the chords of Main, if it has that id, else of every Bridge that
\* has it, changed by F
MapChords(s, id, F(_)) ==
    IF s.mainProgression.id = id
    THEN [s EXCEPT !.mainProgression.chords = F(s.mainProgression.chords)]
    ELSE [s EXCEPT !.bridgeProgressions =
            [i \in 1..Len(s.bridgeProgressions) |->
                IF s.bridgeProgressions[i].id = id
                THEN [s.bridgeProgressions[i] EXCEPT
                         !.chords = F(s.bridgeProgressions[i].chords)]
                ELSE s.bridgeProgressions[i]]]

\* InsertedChords with the preceding chord keeping its duration
InsertedChords_NoHalving(chords, insertIndex, newChord) ==
    SpliceInsert(chords, insertIndex, newChord)

\* InsertedChords halving the preceding chord without the floor of 1 beat
InsertedChords_NoFloor(chords, insertIndex, newChord) ==
    SpliceInsert([chords EXCEPT ![insertIndex].durationBeats = RHalf(@)],
                 insertIndex, newChord)

\* the chord list INSERT_CHORD builds
InsertedChords(chords, insertIndex, newChord) ==
    LET halved == [chords EXCEPT ![insertIndex].durationBeats = RMax(RInt(1), RHalf(@))]
    IN  SpliceInsert(halved, insertIndex, newChord)

\* InsertChord appending the chord when insertIndex is outside 1..length
InsertChord_NoIndexCheck(s, payload) ==
    IF ~HasProgression(s, payload.progressionId) THEN s
    ELSE IF \/ payload.insertIndex <= 0
            \/ payload.insertIndex > Len(findProgression(s, payload.progressionId).chords)
    THEN MapChords(s, payload.progressionId,
                   LAMBDA chords : Append(chords, payload.newChord))
    ELSE LET newChords ==
                 InsertedChords(findProgression(s, payload.progressionId).chords,
                                payload.insertIndex, payload.newChord)
         IN  MapChords(s, payload.progressionId, LAMBDA chords : newChords)

\* case 'INSERT_CHORD'
InsertChord(s, payload) ==
    IF \/ ~HasProgression(s, payload.progressionId)
       \/ payload.insertIndex <= 0
       \/ payload.insertIndex > Len(findProgression(s, payload.progressionId).chords)
    THEN s
    ELSE LET newChords ==
                 InsertedChords(findProgression(s, payload.progressionId).chords,
                                payload.insertIndex, payload.newChord)
         IN  MapChords(s, payload.progressionId, LAMBDA chords : newChords)

\* case 'REGENERATE_SINGLE_CHORD', for an index inside the list
RegenerateSingleChord(s, payload) ==
    MapChords(s, payload.progressionId,
              LAMBDA chords : [chords EXCEPT ![payload.chordIndex + 1] = payload.newChord])

\* ClampDuration without the upper limit
ClampDuration_NoCeiling(durationBeats) == RMax(Rat(1, 2), durationBeats)

\* ClampDuration without the lower limit
ClampDuration_NoFloor(durationBeats) == RMin(RInt(8), durationBeats)

\* Math.max(0.5, Math.min(8, durationBeats))
ClampDuration(durationBeats) == RMax(Rat(1, 2), RMin(RInt(8), durationBeats))

\* case 'UPDATE_CHORD_DURATION', for an index inside the list
UpdateChordDuration(s, payload) ==
    MapChords(s, payload.progressionId,
              LAMBDA chords : [chords EXCEPT ![payload.chordIndex + 1].durationBeats =
                                        ClampDuration(payload.durationBeats)])


----------------------------------------------------------------------------
(* History variables *)

\* no operation has been performed / no function has been called
NoOp == [type |-> "none"]

NoCall == [fn |-> "none"]

\* what a dispatched action leaves in `last`
Dispatched(type, payload, before) == [type |-> type, payload |-> payload, before |-> before]

----------------------------------------------------------------------------
(* SpecReducer: the reducer as a function, applied once to a state the       *)
(* application can be in and a payload drawn from bounded sets.              *)

\* a closed-voiced chord of 4 beats, voiced from previousNotes
VoicedChord(root, quality, previousNotes) ==
    MakeChord(root, quality,
              getVoicedChordNotes(root, quality, previousNotes, DefaultRange, FALSE),
              RInt(4))

\* the chords Am, Fmaj7, G7, Em7, each voiced from the one before
ScenarioChords ==
    LET am == VoicedChord("A", "min", NoNotes)
        fmaj7 == VoicedChord("F", "maj7", am.notes)
        g7 == VoicedChord("G", "7", fmaj7.notes)
        em7 == VoicedChord("E", "min7", g7.notes)
    IN  <<am, fmaj7, g7, em7>>

\* durations the first two chords of Main start with (in half beats)
InitHalfBeats == {1, 3, 5, 8, 16}

\* a state after generate() and edits: Main holds the scenario chords, the
\* first two with durations d1 and d2, and the two Bridges hold default templates
ReducerState(d1, d2) ==
    LET key == initialState.settings.key
        b1 == generateProgressionFromTemplate(key, DEFAULT_PROGRESSIONS[1], "Bridge 1",
                                              "Rock", 2, <<RandDen - 1>>, 1).val
        b2 == generateProgressionFromTemplate(key, DEFAULT_PROGRESSIONS[3], "Bridge 2",
                                              "Rock", 3, <<RandDen - 1>>, 1).val
    IN  [initialState EXCEPT
            !.mainProgression =
                [id |-> 1, label |-> "Main",
                 chords |-> [ScenarioChords EXCEPT ![1].durationBeats = d1,
                                                   ![2].durationBeats = d2]],
            !.bridgeProgressions = <<b1, b2>>]

InitReducer ==
    /\ state \in {ReducerState(Rat(h1, 2), Rat(h2, 2)) : h1, h2 \in InitHalfBeats}
    /\ idCounter = 3
    /\ ops = 0
    /\ last = NoOp
    /\ call = NoCall

\* an id no progression has
UnknownId == 0 - 1

ProgIdInputs == {1, 2, 3, UnknownId}

\* the chord indices a payload may name for progression id: those inside it
IndexInputs(s, id) ==
    IF HasProgression(s, id) THEN 0..(Len(findProgression(s, id).chords) - 1) ELSE {0}

\* raw durations of an UPDATE_CHORD_DURATION payload, in quarter beats
RawQuarterBeats == {-400, -4, 0, 1, 2, 3, 7, 16, 32, 33, 34, 400}

\* the chord an INSERT_CHORD payload carries: a 2-beat passing chord
PassingChordInput ==
    MakeChord("D", "min7",
              getVoicedChordNotes("D", "min7", NoNotes, DefaultRange, FALSE), RInt(2))

DispatchSwap ==
    /\ last = NoOp
    /\ \E src \in ProgIdInputs, tgt \in ProgIdInputs :
      \E si \in IndexInputs(state, src), ti \in IndexInputs(state, tgt) :
        LET payload == [sourceProgId |-> src, targetProgId |-> tgt,
                        sourceIdx |-> si, targetIdx |-> ti]
        IN  /\ state' = SwapChord(state, payload)
            /\ last' = Dispatched("SWAP_CHORD", payload, state)
            /\ UNCHANGED <<idCounter, ops, call>>

DispatchInsert ==
    /\ last = NoOp
    /\ \E pid \in ProgIdInputs, insertIndex \in -1..5 :
        LET payload == [progressionId |-> pid, insertIndex |-> insertIndex,
                        newChord |-> PassingChordInput]
        IN  /\ state' = InsertChord(state, payload)
            /\ last' = Dispatched("INSERT_CHORD", payload, state)
            /\ UNCHANGED <<idCounter, ops, call>>

DispatchUpdateDuration ==
    /\ last = NoOp
    /\ \E pid \in ProgIdInputs \ {UnknownId}, q \in RawQuarterBeats :
      \E chordIndex \in IndexInputs(state, pid) :
        LET payload == [progressionId |-> pid, chordIndex |-> chordIndex,
                        durationBeats |-> Rat(q, 4)]
        IN  /\ state' = UpdateChordDuration(state, payload)
            /\ last' = Dispatched("UPDATE_CHORD_DURATION", payload, state)
            /\ UNCHANGED <<idCounter, ops, call>>

NextReducer == DispatchSwap \/ DispatchInsert \/ DispatchUpdateDuration

SpecReducer == InitReducer /\ [][NextReducer]_vars


----------------------------------------------------------------------------
(* Claims about the reducer (SpecReducer) *)

\* the display names of a chord list
Names(chords) == [i \in 1..Len(chords) |-> chords[i].displayName]

Am == <<"A", "m">>

Fmaj7 == <<"F", "maj7">>

G7 == <<"G", "7">>

Em7 == <<"E", "m7">>

\* the last dispatch was SWAP_CHORD of index 1 with index 3 inside Main, and
\* Main held [Am, Fmaj7, G7, Em7]
C1_Case ==
    /\ last.type = "SWAP_CHORD"
    /\ last.payload.sourceProgId = last.before.mainProgression.id
    /\ last.payload.targetProgId = last.before.mainProgression.id
    /\ last.payload.sourceIdx = 1
    /\ last.payload.targetIdx = 3
    /\ Names(last.before.mainProgression.chords) = <<Am, Fmaj7, G7, Em7>>

\* C1 as stated: SWAP_CHORD of index 1 with index 3 inside one progression
\* [Am, Fmaj7, G7, Em7] yields [Am, Em7, G7, Fmaj7].
C1_Original ==
    C1_Case => Names(state.mainProgression.chords) = <<Am, Em7, G7, Fmaj7>>

\* C1 amended: SWAP_CHORD of index 1 with index 3 inside one progression
\* [Am, Fmaj7, G7, Em7] removes the chord at index 1 and re-inserts it at
\* index 3, which yields exactly the order [Am, G7, Em7, Fmaj7].
C1_SwapSameProgressionMoves ==
    C1_Case => Names(state.mainProgression.chords) = <<Am, G7, Em7, Fmaj7>>

\* index 1 was swapped with index 3 inside Main = [Am, Fmaj7, G7, Em7]
C1_Witness ==
    /\ C1_Case
    /\ Names(state.mainProgression.chords) = <<Am, G7, Em7, Fmaj7>>

\* the chords of the progression a payload names, in state s
PayloadChords(s, payload) == findProgression(s, payload.progressionId).chords

\* C2: UPDATE_CHORD_DURATION on an existing chord stores max(0.5, min(8, raw))
\* as that chord's durationBeats, whatever raw is (negative, zero, above 8):
\* 0.5 for raw below 0.5, 8 for raw above 8, raw itself otherwise.
C2_DurationClamped ==
    last.type = "UPDATE_CHORD_DURATION" =>
        LET raw == last.payload.durationBeats
            stored == At0(PayloadChords(state, last.payload),
                          last.payload.chordIndex).durationBeats
        IN  /\ RLess(raw, Rat(1, 2)) => stored = Rat(1, 2)
            /\ RLess(RInt(8), raw) => stored = RInt(8)
            /\ (RLeq(Rat(1, 2), raw) /\ RLeq(raw, RInt(8))) => stored = raw

\* a negative raw duration was stored as half a beat on a chord that held another
C2_Witness ==
    /\ last.type = "UPDATE_CHORD_DURATION"
    /\ RLess(last.payload.durationBeats, RInt(0))
    /\ At0(PayloadChords(last.before, last.payload),
           last.payload.chordIndex).durationBeats # Rat(1, 2)
    /\ At0(PayloadChords(state, last.payload),
           last.payload.chordIndex).durationBeats = Rat(1, 2)

\* the last dispatch was INSERT_CHORD with a known progression id and
\* 0 < insertIndex <= length
C9_Case ==
    /\ last.type = "INSERT_CHORD"
    /\ HasProgression(last.before, last.payload.progressionId)
    /\ last.payload.insertIndex > 0
    /\ last.payload.insertIndex <= Len(PayloadChords(last.before, last.payload))

\* C9: INSERT_CHORD with a known progression id and 0 < insertIndex <= length
\* places the new chord at insertIndex, sets the duration of the chord at
\* insertIndex - 1 to max(1, old / 2), leaves every other chord, its order and
\* every other progression unchanged, and the length grows by exactly one.
C9_InsertChord ==
    C9_Case =>
        LET old == PayloadChords(last.before, last.payload)
            new == PayloadChords(state, last.payload)
            at == last.payload.insertIndex
            oldDur == At0(old, at - 1).durationBeats
            newDur == At0(new, at - 1).durationBeats
        IN  /\ Len(new) = Len(old) + 1
            /\ At0(new, at) = last.payload.newChord
            /\ IF RLess(oldDur, RInt(2)) THEN newDur = RInt(1)
               ELSE RAdd(newDur, newDur) = oldDur
            /\ At0(new, at - 1) = [At0(old, at - 1) EXCEPT !.durationBeats = newDur]
            /\ \A j \in 0..(at - 2) : At0(new, j) = At0(old, j)
            /\ \A j \in at..(Len(old) - 1) : At0(new, j + 1) = At0(old, j)
            /\ \A i \in 1..Len(AllProgressions(state)) :
                  AllProgressions(state)[i].id # last.payload.progressionId
                      => AllProgressions(state)[i] = AllProgressions(last.before)[i]
            /\ Len(AllProgressions(state)) = Len(AllProgressions(last.before))

\* a chord was inserted after a half-beat chord, whose duration became 1 beat
C9_Witness ==
    /\ C9_Case
    /\ At0(PayloadChords(last.before, last.payload),
           last.payload.insertIndex - 1).durationBeats = Rat(1, 2)
    /\ At0(PayloadChords(state, last.payload),
           last.payload.insertIndex - 1).durationBeats = RInt(1)
    /\ At0(PayloadChords(state, last.payload), last.payload.insertIndex)
           = last.payload.newChord


----------------------------------------------------------------------------
(* SpecTemplates: getTemplates applied once to a genre and a mood *)

InitPure ==
    /\ state = initialState
    /\ idCounter = 0
    /\ ops = 0
    /\ last = NoOp
    /\ call = NoCall

CallGetTemplates ==
    /\ call = NoCall
    /\ \E genre \in Genres, mood \in Moods :
        /\ call' = [fn |-> "getTemplates", genre |-> genre, mood |-> mood,
                    result |-> getTemplates(genre, mood)]
        /\ UNCHANGED <<state, idCounter, ops, last>>

NextTemplates == CallGetTemplates

SpecTemplates == InitPure /\ [][NextTemplates]_vars

\* the positions of PROGRESSION_TEMPLATES whose key is of a genre
GenrePositions(genre) ==
    {i \in 1..Len(PROGRESSION_TEMPLATES) : PROGRESSION_TEMPLATES[i].key[1] = genre}

\* the six Rock templates: Rock_Energetic, Rock_Dark, Rock_Uplifting in table order
RockTemplates ==
    << <<<<1, "maj">>, <<4, "maj">>, <<5, "maj">>, <<1, "maj">>>>,
       <<<<1, "maj">>, <<5, "maj">>, <<4, "maj">>, <<1, "maj">>>>,
       <<<<1, "min">>, <<6, "maj">>, <<7, "maj">>, <<1, "min">>>>,
       <<<<1, "min">>, <<4, "min">>, <<5, "min">>, <<1, "min">>>>,
       <<<<1, "maj">>, <<4, "maj">>, <<1, "maj">>, <<5, "maj">>>>,
       <<<<1, "maj">>, <<5, "maj">>, <<6, "min">>, <<4, "maj">>>> >>

\* C10: getTemplates(genre, mood) returns at least one template: the bank under
\* 'Genre_Mood' when the table has that key; otherwise the banks of all keys
\* 'Genre_*' joined in table order (for Rock/Dreamy the six Rock templates);
\* and the default bank only for a genre with no bank at all.
C10_GetTemplates ==
    call.fn = "getTemplates" =>
        LET exact == {i \in GenrePositions(call.genre) :
                         PROGRESSION_TEMPLATES[i].key[2] = call.mood}
            banks == GenrePositions(call.genre)
            \* the number of templates in the banks of the genre before position i
            Before(i) == SumSeq([j \in 1..(i - 1) |->
                            IF j \in banks THEN Len(PROGRESSION_TEMPLATES[j].bank) ELSE 0])
        IN  /\ Len(call.result) >= 1
            /\ exact # {} =>
                  \E i \in exact : call.result = PROGRESSION_TEMPLATES[i].bank
            /\ (exact = {} /\ banks # {}) =>
                  /\ Len(call.result) = Before(Len(PROGRESSION_TEMPLATES) + 1)
                  /\ \A i \in banks : \A t \in 1..Len(PROGRESSION_TEMPLATES[i].bank) :
                        call.result[Before(i) + t] = PROGRESSION_TEMPLATES[i].bank[t]
            /\ banks = {} => call.result = DEFAULT_PROGRESSIONS
            /\ (banks # {} /\ call.result = DEFAULT_PROGRESSIONS) =>
                  \E i \in exact : PROGRESSION_TEMPLATES[i].bank = DEFAULT_PROGRESSIONS
            /\ (call.genre = "Rock" /\ call.mood = "Dreamy") =>
                  call.result = RockTemplates

\* getTemplates('Rock', 'Dreamy') was called: no exact key, six Rock templates
C10_Witness ==
    /\ call.fn = "getTemplates"
    /\ call.genre = "Rock"
    /\ call.mood = "Dreamy"
    /\ BankEntries(<<"Rock", "Dreamy">>) = <<>>
    /\ Len(call.result) = 6
    /\ call.result # DEFAULT_PROGRESSIONS


----------------------------------------------------------------------------
(* SpecModal: generateModalInterchangeChord applied once *)

\* the durations of the replaced chord
ModalDurations == {Rat(1, 2), Rat(3, 2), RInt(4), RInt(8)}

ModalGenres == {"Pop", "Jazz"}

CallModalInterchange ==
    /\ call = NoCall
    /\ \E key \in Keys, d \in ModalDurations, hasPrev \in BOOLEAN,
       genre \in ModalGenres, r \in Rand :
        LET oldChord == [ScenarioChords[3] EXCEPT !.durationBeats = d]
            prevNotes == IF hasPrev THEN ScenarioChords[2].notes ELSE NoNotes
            res == generateModalInterchangeChord(oldChord, prevNotes, key, genre, <<r>>, 1)
        IN  /\ call' = [fn |-> "generateModalInterchangeChord", oldChord |-> oldChord,
                        prevNotes |-> prevNotes, key |-> key, genre |-> genre,
                        random |-> r, result |-> res.val]
            /\ UNCHANGED <<state, idCounter, ops, last>>

NextModal == CallModalInterchange

SpecModal == InitPure /\ [][NextModal]_vars

\* the (semitone offset, quality) pairs a major key borrows, and a minor key
MajorKeyBorrows == {<<3, "maj7">>, <<8, "maj7">>, <<10, "7">>, <<5, "min7">>, <<2, "m7b5">>}

MinorKeyBorrows == {<<5, "maj7">>, <<7, "7">>, <<2, "min7">>}

\* the pitch class (0 = C) of a note name
PitchClass(note) == CHOOSE i \in 0..11 : At0(NOTE_NAMES, i) = note

\* C5: the chord generateModalInterchangeChord returns has borrowedFrom
\* 'parallel-minor' under a major key and 'parallel-major' under a minor key,
\* a non-empty borrowedDegree, a root that is the key's root plus one of the
\* table's offsets (major 3, 8, 10, 5, 2; minor 5, 7, 2) with the quality
\* paired with that offset, and the durationBeats of the chord it replaces.
C5_ModalInterchange ==
    call.fn = "generateModalInterchangeChord" =>
        LET res == call.result
            pairs == IF call.key.scale = "major" THEN MajorKeyBorrows ELSE MinorKeyBorrows
        IN  /\ res.borrowedFrom = (IF call.key.scale = "major"
                                   THEN "parallel-minor" ELSE "parallel-major")
            /\ res.borrowedDegree # Undefined
            /\ Len(res.borrowedDegree) > 0
            /\ \E pr \in pairs :
                  /\ PitchClass(res.root) = (PitchClass(call.key.root) + pr[1]) % 12
                  /\ res.quality = pr[2]
            /\ res.durationBeats = call.oldChord.durationBeats

\* a 1.5-beat chord was replaced under A minor by the borrowed V: E7
C5_Witness ==
    /\ call.fn = "generateModalInterchangeChord"
    /\ call.key = [root |-> "A", scale |-> "minor"]
    /\ call.oldChord.durationBeats = Rat(3, 2)
    /\ call.result.root = "E"
    /\ call.result.quality = "7"
    /\ call.result.borrowedFrom = "parallel-major"
    /\ call.result.borrowedDegree = "V"


----------------------------------------------------------------------------
(* SpecPassing: generatePassingChord applied once *)

\* the qualities of the chord before and of the chord after, the genre, and
\* the result of Math.random() in enrichChord
PassingCases ==
    {<<"maj", "maj", "Pop", 0>>, <<"min7", "maj", "Jazz", 0>>,
     <<"maj", "7", "Jazz", RandDen - 1>>}

CallPassingChord ==
    /\ call = NoCall
    /\ \E key \in Keys, prevRoot \in NoteNames, nextRoot \in NoteNames,
          c \in PassingCases :
        \E prevChord \in {VoicedChord(prevRoot, c[1], NoNotes)} :
          \E nextChord \in {VoicedChord(nextRoot, c[2], prevChord.notes)} :
            /\ call' = [fn |-> "generatePassingChord", prevChord |-> prevChord,
                        nextChord |-> nextChord, key |-> key, genre |-> c[3],
                        random |-> c[4],
                        result |-> generatePassingChord(prevChord, nextChord, key,
                                                        c[3], <<c[4]>>, 1).val]
            /\ UNCHANGED <<state, idCounter, ops, last>>

NextPassing == CallPassingChord

SpecPassing == InitPure /\ [][NextPassing]_vars

\* the pitch classes of a key's scale: major 0 2 4 5 7 9 11, minor 0 2 3 5 7 8 10
\* above the key's root
ScalePitchClasses(key) ==
    {(PitchClass(key.root) + i) % 12 :
        i \in (IF key.scale = "major" THEN {0, 2, 4, 5, 7, 9, 11}
               ELSE {0, 2, 3, 5, 7, 8, 10})}

\* C8: the chord generatePassingChord returns lasts exactly 2 beats and its
\* root is in the key's scale: the pitch class of round((prev + next) / 2) over
\* the two root pitches when that pitch class is in the scale, else a scale
\* tone one semitone from it; between C and G in C major the root is E.
C8_PassingChord ==
    call.fn = "generatePassingChord" =>
        LET res == call.result
            sum == (60 + PitchClass(call.prevChord.root))
                   + (60 + PitchClass(call.nextChord.root))
            \* round(sum / 2), a half rounding up
            mid == CHOOSE m \in 60..71 : 2 * m = sum \/ 2 * m = sum + 1
            scale == ScalePitchClasses(call.key)
            root == PitchClass(res.root)
        IN  /\ res.durationBeats = <<2, 1>>
            /\ root \in scale
            /\ mid % 12 \in scale => root = mid % 12
            /\ mid % 12 \notin scale =>
                  \/ root = (mid + 1) % 12
                  \/ root = (mid + 11) % 12
            /\ ( /\ call.key = [root |-> "C", scale |-> "major"]
                 /\ call.prevChord.root = "C"
                 /\ call.nextChord.root = "G" ) => res.root = "E"

\* a passing chord between C and G in C major: root E (the midpoint 63.5
\* rounds to 64), 2 beats
C8_Witness ==
    /\ call.fn = "generatePassingChord"
    /\ call.key = [root |-> "C", scale |-> "major"]
    /\ call.prevChord.root = "C"
    /\ call.nextChord.root = "G"
    /\ call.result.root = "E"
    /\ call.result.durationBeats = <<2, 1>>



----------------------------------------------------------------------------
(* SpecVoicing: getVoicedChordNotes applied to every root, quality and mode  *)
(* without a previous voicing, and then to the voicing a call returned       *)

\* the longest chain of calls, each voiced from the result of the one before
MaxChain == 2

\* the calls whose result is passed on as the previous voicing
ChainRoots == {"C", "F#"}

ChainQualities == {"min", "maj9"}

CallVoicedChordNotes ==
    /\ \/ call = NoCall
       \/ /\ call.fn = "getVoicedChordNotes"
          /\ call.depth < MaxChain
          /\ call.root \in ChainRoots
          /\ call.quality \in ChainQualities
    /\ \E root \in NoteNames, quality \in Qualities, useOpenVoicing \in BOOLEAN :
        LET previousNotes == IF call = NoCall THEN NoNotes ELSE call.result
            depth == IF call = NoCall THEN 1 ELSE call.depth + 1
        IN  /\ call' = [fn |-> "getVoicedChordNotes", root |-> root,
                        quality |-> quality, previousNotes |-> previousNotes,
                        useOpenVoicing |-> useOpenVoicing, depth |-> depth,
                        result |-> getVoicedChordNotes(root, quality, previousNotes,
                                                       DefaultRange, useOpenVoicing)]
            /\ UNCHANGED <<state, idCounter, ops, last>>

NextVoicing == CallVoicedChordNotes

SpecVoicing == InitPure /\ [][NextVoicing]_vars

\* C6: with no previous voicing, the default range 48..72 and closed voicing,
\* getVoicedChordNotes(root, Q) returns as many pitches as CHORD_INTERVALS[Q]
\* has intervals, for each of the 12 roots and every quality.
C6_ClosedVoicingLength ==
    ( /\ call.fn = "getVoicedChordNotes"
      /\ call.previousNotes = NoNotes
      /\ ~call.useOpenVoicing )
    => Len(call.result) = Len(CHORD_INTERVALS(call.quality))

\* B maj13 was voiced closed, without a previous voicing, on 5 pitches
C6_Witness ==
    /\ call.fn = "getVoicedChordNotes"
    /\ call.root = "B"
    /\ call.quality = "maj13"
    /\ call.previousNotes = NoNotes
    /\ ~call.useOpenVoicing
    /\ Len(call.result) = 5

\* C7: for every root, quality, previous voicing (none, or one the function
\* returned) and both modes, the voicing is strictly ascending and its pitch
\* classes are exactly those of the chord (root + each interval, mod 12), each
\* occurring once.
C7_VoicingCoversChord ==
    call.fn = "getVoicedChordNotes" =>
        LET notes == call.result
            intervals == CHORD_INTERVALS(call.quality)
            chordClasses == {(PitchClass(call.root) + intervals[v]) % 12 :
                                v \in 1..Len(intervals)}
        IN  /\ \A i \in 1..(Len(notes) - 1) : notes[i] < notes[i + 1]
            /\ {notes[i] % 12 : i \in 1..Len(notes)} = chordClasses
            /\ \A pc \in chordClasses :
                  Cardinality({i \in 1..Len(notes) : notes[i] % 12 = pc}) = 1

\* a five-note chord was voiced open from the voicing of an earlier call
C7_Witness ==
    /\ call.fn = "getVoicedChordNotes"
    /\ call.depth = 2
    /\ call.useOpenVoicing
    /\ Len(call.previousNotes) = 5
    /\ call.quality = "13"
    /\ Len(call.result) = 5

\* C19: with open voicing the returned voicing contains the bass pitch
\* NOTE_TO_MIDI[root] - 12 and every other returned pitch, the one the Drop-2
\* step lowered included, lies above it.
C19_BassIsLowest ==
    (call.fn = "getVoicedChordNotes" /\ call.useOpenVoicing) =>
        LET notes == call.result
            bassNote == NOTE_TO_MIDI(call.root) - 12
        IN  /\ \E i \in 1..Len(notes) : notes[i] = bassNote
            /\ Cardinality({i \in 1..Len(notes) : notes[i] = bassNote}) = 1
            /\ \A i \in 1..Len(notes) : notes[i] >= bassNote


----------------------------------------------------------------------------
(* SpecExtension: generateExtensionChords applied to a progression, and again *)
(* to the progression with the returned chords appended                       *)

\* the most chords of the progression the first call is given
MaxExisting == 9

\* a progression of n chords: Am, Fmaj7, G7, Em7 repeated
ExistingChords(n) == [i \in 1..n |-> ScenarioChords[((i - 1) % 4) + 1]]

ExtensionKeys == {[root |-> "C", scale |-> "major"], [root |-> "A", scale |-> "minor"]}

\* genre and mood: not passed; a key of PROGRESSION_TEMPLATES; not a key
ExtensionSettings == {<<NoGenre, NoMood>>, <<"Jazz", "Chill">>, <<"Rock", "Dreamy">>}

ExtensionRandoms == {0, RandDen - 1}

ExtensionCall(start, existingChords, key, setting, r) ==
    LET res == generateExtensionChords(existingChords, key, setting[1], setting[2],
                                       <<r>>, 1)
    IN  [fn |-> "generateExtensionChords", start |-> start,
         existingChords |-> existingChords, key |-> key, genre |-> setting[1],
         mood |-> setting[2], random |-> r, result |-> res.val,
         chords |-> existingChords \o res.val]

CallExtensionChords ==
    /\ call = NoCall
    /\ \E n \in 0..MaxExisting, key \in ExtensionKeys, setting \in ExtensionSettings,
          r \in ExtensionRandoms :
        /\ call' = ExtensionCall(n, ExistingChords(n), key, setting, r)
        /\ UNCHANGED <<state, idCounter, ops, last>>

CallExtensionChordsAgain ==
    /\ call # NoCall
    /\ call.fn = "generateExtensionChords"
    /\ \E key \in ExtensionKeys, setting \in ExtensionSettings, r \in ExtensionRandoms :
        /\ call' = ExtensionCall(call.start, call.chords, key, setting, r)
        /\ UNCHANGED <<state, idCounter, ops, last>>

NextExtension == CallExtensionChords \/ CallExtensionChordsAgain

SpecExtension == InitPure /\ [][NextExtension]_vars

\* C4: for a progression of n chords generateExtensionChords returns exactly
\* min(4, 8 - n) chords when n < 8 and no chord otherwise; so appending its
\* result again and again to a progression that started with at most 8 chords
\* never gives more than 8, and at 8 chords nothing more is added.
C4_ExtensionCount ==
    call.fn = "generateExtensionChords" =>
        LET n == Len(call.existingChords)
            expected == IF n >= 8 THEN 0 ELSE IF 8 - n < 4 THEN 8 - n ELSE 4
        IN  /\ Len(call.result) = expected
            /\ call.start <= 8 => Len(call.chords) <= 8
            /\ n = 8 => call.chords = call.existingChords

\* a progression that started with 1 chord had 5 after the first extension,
\* and the second extension added the 3 chords that fill it to 8
C4_Witness ==
    /\ call.fn = "generateExtensionChords"
    /\ call.start = 1
    /\ Len(call.existingChords) = 5
    /\ Len(call.result) = 3
    /\ Len(call.chords) = 8


----------------------------------------------------------------------------
(* Spec: the hook useChordProgression.  Its state after construction is the  *)
(* state the mount effect's generate() leaves; each action is one callback   *)
(* of the hook, from the user's gesture to the state the reducer returns.    *)

\* the most callbacks run after the mount
MaxOps == 2

\* every Math.random() of one callback returns the same value: the least or
\* the greatest
AppRandoms == {<<0>>, <<RandDen - 1>>}

\* case 'EXTEND_PROGRESSION': the chords of payload.newChords are appended to
\* the progression with payload.progressionId
ExtendProgression(s, payload) ==
    MapChords(s, payload.progressionId, LAMBDA chords : chords \o payload.newChords)

\* the state generate() leaves: generateProgressions, then SET_PROGRESSIONS
Generated(s, ids, rs) ==
    SetProgressions(s, generateProgressions(s.settings.key, s.settings.genre,
                                            s.settings.mood, ids, rs, 1).val)

\* the value every Math.random() of the mount's generate() returns
MountRandoms == {<<0>>}

Init ==
    /\ state \in {Generated(initialState, <<1, 2, 3>>, rs) : rs \in MountRandoms}
    /\ idCounter = 3
    /\ ops = 0
    /\ last = NoOp
    /\ call = NoCall

\* the progressions whose chord blocks the gestures below touch: Main and
\* Bridge 1
EditedIds(s) == {s.mainProgression.id, s.bridgeProgressions[1].id}

\* what a callback leaves in the history variables
Ran(type, payload) ==
    /\ ops' = ops + 1
    /\ last' = Dispatched(type, payload, state)
    /\ call' = call

\* the key selector: the parallel and the relative minor of the initial key
setKey ==
    /\ ops < MaxOps
    /\ \E key \in {[root |-> "C", scale |-> "minor"], [root |-> "A", scale |-> "minor"]} :
        /\ state' = SetKey(state, key)
        /\ idCounter' = idCounter
        /\ Ran("SET_KEY", key)

\* the tempo control
setTempo ==
    /\ ops < MaxOps
    /\ \E tempo \in {120} :
        /\ state' = SetTempo(state, tempo)
        /\ idCounter' = idCounter
        /\ Ran("SET_TEMPO", tempo)

\* the genre selector
setGenre ==
    /\ ops < MaxOps
    /\ \E genre \in {"Jazz", "Rock"} :
        /\ state' = SetGenre(state, genre)
        /\ idCounter' = idCounter
        /\ Ran("SET_GENRE", genre)

\* the mood selector
setMood ==
    /\ ops < MaxOps
    /\ \E mood \in {"Dark"} :
        /\ state' = SetMood(state, mood)
        /\ idCounter' = idCounter
        /\ Ran("SET_MOOD", mood)

\* the sound selector
setSoundType ==
    /\ ops < MaxOps
    /\ \E soundType \in {"pad"} :
        /\ state' = SetSoundType(state, soundType)
        /\ idCounter' = idCounter
        /\ Ran("SET_SOUND_TYPE", soundType)

generate ==
    /\ ops < MaxOps
    /\ \E rs \in AppRandoms :
        /\ state' = Generated(state, <<idCounter + 1, idCounter + 2, idCounter + 3>>, rs)
        /\ idCounter' = idCounter + 3
        /\ Ran("SET_PROGRESSIONS", [random |-> rs])

regenerateMain ==
    /\ ops < MaxOps
    /\ \E rs \in AppRandoms :
        /\ state' = RegenerateMain(state, idCounter + 1, rs)
        /\ idCounter' = idCounter + 1
        /\ Ran("REGENERATE_MAIN", [random |-> rs])

regenerateBridge ==
    /\ ops < MaxOps
    /\ \E index \in 0..(Len(state.bridgeProgressions) - 1), rs \in AppRandoms :
        /\ state' = RegenerateBridge(state, index, idCounter + 1, rs)
        /\ idCounter' = idCounter + 1
        /\ Ran("REGENERATE_BRIDGE", [index |-> index, random |-> rs])

\* the first chord block of a progression dragged onto the last one of a
\* progression
swapChord ==
    /\ ops < MaxOps
    /\ \E src \in EditedIds(state), tgt \in EditedIds(state) :
        \E payload \in {[sourceProgId |-> src, targetProgId |-> tgt, sourceIdx |-> 0,
                         targetIdx |-> Len(findProgression(state, tgt).chords) - 1]} :
            /\ state' = SwapChord(state, payload)
            /\ idCounter' = idCounter
            /\ Ran("SWAP_CHORD", payload)

\* the + between the first two chord blocks, and the positions the callback
\* refuses
insertChord ==
    /\ ops < MaxOps
    /\ \E pid \in EditedIds(state), rs \in AppRandoms :
        \E prog \in {findProgression(state, pid)} :
          \E insertIndex \in {0, 1, Len(prog.chords)} :
            /\ ~(insertIndex <= 0 \/ insertIndex >= Len(prog.chords))
            /\ \E passingChord \in
                    {generatePassingChord(At0(prog.chords, insertIndex - 1),
                                          At0(prog.chords, insertIndex),
                                          state.settings.key, state.settings.genre,
                                          rs, 1).val} :
                 \E payload \in {[progressionId |-> pid, insertIndex |-> insertIndex,
                                  newChord |-> passingChord]} :
                    /\ state' = InsertChord(state, payload)
                    /\ idCounter' = idCounter
                    /\ Ran("INSERT_CHORD", payload)

\* the regenerate button of the second chord block
regenerateSingleChord ==
    /\ ops < MaxOps
    /\ \E pid \in EditedIds(state), rs \in AppRandoms :
        \E prog \in {findProgression(state, pid)} :
          \E chordIndex \in {1} :
            /\ ~(chordIndex < 0 \/ chordIndex >= Len(prog.chords))
            /\ \E newChord \in
                    {generateSingleChord(At0(prog.chords, chordIndex),
                                         IF chordIndex > 0
                                         THEN At0(prog.chords, chordIndex - 1).notes
                                         ELSE NoNotes,
                                         state.settings.key, state.settings.genre,
                                         rs, 1).val} :
                 \E payload \in {[progressionId |-> pid, chordIndex |-> chordIndex,
                                  newChord |-> newChord]} :
                    /\ state' = RegenerateSingleChord(state, payload)
                    /\ idCounter' = idCounter
                    /\ Ran("REGENERATE_SINGLE_CHORD", payload)

\* the raw durations passed for a chord of d beats: the half-beat step down of
\* the - button, and numbers outside the limits
RawDurations(d) == {RAdd(d, Rat(-1, 2)), RInt(0), RInt(100)}

\* a duration edit of the first or the last chord block
updateChordDuration ==
    /\ ops < MaxOps
    /\ \E pid \in EditedIds(state) :
        \E prog \in {findProgression(state, pid)} :
          \E chordIndex \in {0, Len(prog.chords) - 1} :
            \E raw \in RawDurations(At0(prog.chords, chordIndex).durationBeats) :
              \E payload \in {[progressionId |-> pid, chordIndex |-> chordIndex,
                               durationBeats |-> raw]} :
                /\ state' = UpdateChordDuration(state, payload)
                /\ idCounter' = idCounter
                /\ Ran("UPDATE_CHORD_DURATION", payload)

\* the ADD button of a progression, shown while it has fewer than 8 chords:
\* generateExtensionChords, then EXTEND_PROGRESSION
extendProgression ==
    /\ ops < MaxOps
    /\ \E pid \in EditedIds(state), rs \in AppRandoms :
        \E prog \in {findProgression(state, pid)} :
            /\ Len(prog.chords) < 8
            /\ \E newChords \in
                    {generateExtensionChords(prog.chords, state.settings.key,
                                             state.settings.genre,
                                             state.settings.mood, rs, 1).val} :
                 \E payload \in {[progressionId |-> pid, newChords |-> newChords]} :
                    /\ state' = ExtendProgression(state, payload)
                    /\ idCounter' = idCounter
                    /\ Ran("EXTEND_PROGRESSION", payload)

Next ==
    \/ setKey
    \/ setTempo
    \/ setGenre
    \/ setMood
    \/ setSoundType
    \/ generate
    \/ regenerateMain
    \/ regenerateBridge
    \/ swapChord
    \/ insertChord
    \/ regenerateSingleChord
    \/ updateChordDuration
    \/ extendProgression

Spec == Init /\ [][Next]_vars

\* every chord of Main and of the Bridges
AllChords(s) ==
    UNION {{AllProgressions(s)[i].chords[j] : j \in 1..Len(AllProgressions(s)[i].chords)} :
              i \in 1..Len(AllProgressions(s))}

\* C3: in every state reached by generate, regenerate (of a progression or of
\* one chord), swap, passing-chord insertion, duration edit and extension,
\* every chord of Main and of the Bridges lasts between 0.5 and 8 beats.
C3_DurationsInRange ==
    \A c \in AllChords(state) :
        /\ c.durationBeats[2] > 0
        /\ 2 * c.durationBeats[1] >= c.durationBeats[2]
        /\ c.durationBeats[1] <= 8 * c.durationBeats[2]

\* the last chord of a progression was set to the upper limit and the
\* progression then extended: the chords added last 8 beats too
C3_Witness ==
    /\ ops = 2
    /\ last.type = "EXTEND_PROGRESSION"
    /\ Len(state.mainProgression.chords) = 8
    /\ state.mainProgression.chords[4].durationBeats = <<8, 1>>
    /\ state.mainProgression.chords[8].durationBeats = <<8, 1>>


----------------------------------------------------------------------------
(* SpecProgressions: generateProgressions applied once to a key, a genre, a  *)
(* mood and a random source                                                  *)

\* the array generateProgressions hands to pickMultipleRandom
TemplatePool(genre, mood) ==
    LET templates == getTemplates(genre, mood)
    IN  IF Len(templates) >= 3 THEN templates ELSE templates \o DEFAULT_PROGRESSIONS

CallGenerateProgressions ==
    /\ call = NoCall
    /\ \E key \in {[root |-> "C", scale |-> "major"]}, genre \in Genres,
          mood \in Moods, r1, r2, r3 \in {0, RandDen \div 2} :
        \E selected \in {SelectTemplates(genre, mood, <<r1, r2, r3>>, 1)} :
        \E res \in {generateProgressions(key, genre, mood, <<1, 2, 3>>,
                                         <<r1, r2, r3>>, 1)} :
            /\ call' = [fn |-> "generateProgressions", key |-> key, genre |-> genre,
                        mood |-> mood, random |-> <<r1, r2, r3>>,
                        pool |-> TemplatePool(genre, mood),
                        selected |-> selected.val, result |-> res.val]
            /\ UNCHANGED <<state, idCounter, ops, last>>

SpecProgressions == InitPure /\ [][CallGenerateProgressions]_vars

\* the distinct elements of a sequence
Elements(seq) == {seq[i] : i \in 1..Len(seq)}

\* C11: generateProgressions returns 'Main', 'Bridge 1' and 'Bridge 2', and the
\* three templates it selected are pairwise different degree/quality sequences
\* unless the pool it selected from holds fewer than 3 different templates.
C11_DistinctTemplates ==
    call.fn = "generateProgressions" =>
        /\ call.result.main.label = "Main"
        /\ Len(call.result.bridges) = 2
        /\ call.result.bridges[1].label = "Bridge 1"
        /\ call.result.bridges[2].label = "Bridge 2"
        /\ Len(call.selected) = 3
        /\ Cardinality(Elements(call.pool)) >= 3
               => Cardinality(Elements(call.selected)) = 3


----------------------------------------------------------------------------
(* SpecScale: the two scale-membership tests applied once to a MIDI note and *)
(* a key                                                                     *)

\* midiToNoteName(midiNote)
midiToNoteName(midiNote) == At0(NOTE_NAMES, midiNote % 12)

\* isNoteInScale without the wrap of rootIndex + interval into one octave
isNoteInScale_NoWrap(midiNote, key) ==
    LET noteIndex == midiNote % 12
        rootIndex == IndexOf(NOTE_NAMES, key.root)
        intervals == SCALE_INTERVALS(key.scale)
    IN  \E i \in 1..Len(intervals) : rootIndex + intervals[i] = noteIndex

\* isNoteInScale(midiNote, key) of musicTheory
isNoteInScale(midiNote, key) ==
    LET noteIndex == midiNote % 12
        rootIndex == IndexOf(NOTE_NAMES, key.root)
        intervals == SCALE_INTERVALS(key.scale)
    IN  \E i \in 1..Len(intervals) : (rootIndex + intervals[i]) % 12 = noteIndex

\* isNoteInScale(midiNote, key) of melodyGenerator
melodyIsNoteInScale(midiNote, key) ==
    LET noteName == midiToNoteName(midiNote)
        scaleNotes == getScaleNotes(key)
    IN  SeqIncludes(scaleNotes, noteName)

CallIsNoteInScale ==
    /\ call = NoCall
    /\ \E p \in 0..11, key \in Keys :
        /\ call' = [fn |-> "isNoteInScale", midiNote |-> p, key |-> key,
                    result |-> isNoteInScale(p, key),
                    melodyResult |-> melodyIsNoteInScale(p, key)]
        /\ UNCHANGED <<state, idCounter, ops, last>>

SpecScale == InitPure /\ [][CallIsNoteInScale]_vars

\* C12: for each of the 12 pitch classes and each of the 24 keys the
\* interval-based isNoteInScale and the name-based test of the melody
\* generator (getScaleNotes(key).includes(midiToNoteName(p))) give the same answer.
C12_ScaleTestsAgree ==
    call.fn = "isNoteInScale" =>
        /\ call.result = call.melodyResult
        /\ call.melodyResult
               = SeqIncludes(getScaleNotes(call.key), midiToNoteName(call.midiNote))

\* pitch class 1 (C#) was tested in D major, where it is the seventh degree and
\* rootIndex + interval = 13 wraps to 1: both tests say it is in the scale
C12_Witness ==
    /\ call.fn = "isNoteInScale"
    /\ call.midiNote = 1
    /\ call.key = [root |-> "D", scale |-> "major"]
    /\ call.result
    /\ call.melodyResult


----------------------------------------------------------------------------
(* SpecEnrich: enrichChord applied once to a quality, a genre and a random   *)
(* source                                                                    *)

CallEnrichChord ==
    /\ call = NoCall
    /\ \E quality \in Qualities, genre \in Genres, r1 \in Rand,
          r2 \in {0, RandDen - 1} :
        \E res \in {enrichChord(quality, genre, <<r1, r2>>, 1)} :
            /\ call' = [fn |-> "enrichChord", quality |-> quality, genre |-> genre,
                        random |-> <<r1, r2>>, result |-> res.val,
                        draws |-> res.k - 1]
            /\ UNCHANGED <<state, idCounter, ops, last>>

SpecEnrich == InitPure /\ [][CallEnrichChord]_vars

\* the genres whose enrichment probability is 0.0
ZeroChanceGenres == {"Rock", "Techno", "Country", "Metal"}

\* C13: for Rock, Techno, Country and Metal enrichChord returns its input
\* quality for every value of the random source, 0 included; for every genre
\* the result is the input quality or one of its upgrades.
C13_EnrichChord ==
    call.fn = "enrichChord" =>
        /\ call.genre \in ZeroChanceGenres => call.result = call.quality
        /\ \/ call.result = call.quality
           \/ SeqIncludes(Upgrades(call.quality), call.result)


----------------------------------------------------------------------------
(* SpecRealize: generateExtensionChords applied once to a progression whose  *)
(* last chord has one of several durations                                   *)

\* n scenario chords, the last one with durationBeats d
ExistingChordsEndingWith(n, d) ==
    [i \in 1..n |-> IF i = n THEN [ExistingChords(n)[i] EXCEPT !.durationBeats = d]
                    ELSE ExistingChords(n)[i]]

CallExtensionRealization ==
    /\ call = NoCall
    /\ \E n \in 0..7, d \in {RInt(4), RInt(2), Rat(1, 2)}, key \in ExtensionKeys,
          setting \in ExtensionSettings, r1, r2 \in {0, RandDen - 1} :
        \E existingChords \in {ExistingChordsEndingWith(n, d)} :
        \E res \in {generateExtensionChords(existingChords, key, setting[1],
                                            setting[2], <<r1, r2>>, 1)} :
            /\ call' = [fn |-> "generateExtensionChords", start |-> n,
                        existingChords |-> existingChords, key |-> key,
                        genre |-> setting[1], mood |-> setting[2],
                        random |-> <<r1, r2>>, result |-> res.val,
                        chords |-> existingChords \o res.val]
            /\ UNCHANGED <<state, idCounter, ops, last>>

SpecRealize == InitPure /\ [][CallExtensionRealization]_vars

\* count chords realized as generateProgressionFromTemplate realizes them:
\* createChordFromDegree on the template's entries (taken in turn, wrapping),
\* each voiced from the chord before it and the first from prevNotes
RECURSIVE RealizedFromTemplate(_, _, _, _, _, _, _, _, _)
RealizedFromTemplate(template, key, genre, count, i, chords, prevNotes, rs, k) ==
    IF i >= count THEN chords
    ELSE LET entry == At0(template, i % Len(template))
         IN  Bind(createChordFromDegree(key, entry[1], entry[2], prevNotes, genre,
                                        RInt(4), rs, k), LAMBDA c :
                 RealizedFromTemplate(template, key, genre, count, i + 1,
                                      Append(chords, c.val), c.val.notes, rs, c.k))

\* what the template's realization gives for the call recorded in `call`
C14_Expected ==
    LET existing == call.existingChords
        template == ExtensionTemplate(call.genre, call.mood, call.random, 1)
        prevNotes == IF Len(existing) > 0 THEN existing[Len(existing)].notes ELSE NoNotes
    IN  RealizedFromTemplate(template.val, call.key, call.genre, Len(call.result), 0,
                             <<>>, prevNotes, call.random, template.k)

\* C14 as stated: every chord generateExtensionChords returns equals, in root,
\* quality, notes and durationBeats, the chord createChordFromDegree gives for
\* the same template entry, key, genre and draws, the first one voiced from the
\* last existing chord's notes.
C14_Original ==
    call.fn = "generateExtensionChords" => call.result = C14_Expected

\* C14 amended: the returned chords equal the template's realization in root,
\* quality and notes, and every one of them has the last existing chord's
\* durationBeats (4 when there is no existing chord).
C14_ExtensionRealization ==
    call.fn = "generateExtensionChords" =>
        LET existing == call.existingChords
            duration == IF Len(existing) > 0 THEN existing[Len(existing)].durationBeats
                        ELSE RInt(4)
            expected == C14_Expected
        IN  /\ Len(call.result) = Len(expected)
            /\ \A i \in 1..Len(expected) :
                   call.result[i] = [expected[i] EXCEPT !.durationBeats = duration]

\* three chords were added to a Jazz progression of 5 chords whose last chord
\* lasts 2 beats: each added chord lasts 2 beats, and the first is voiced
\* differently from how it would be without the last chord's notes
C14_Witness ==
    /\ call.fn = "generateExtensionChords"
    /\ call.genre = "Jazz"
    /\ Len(call.existingChords) = 5
    /\ call.existingChords[5].durationBeats = RInt(2)
    /\ Len(call.result) = 3
    /\ \A i \in 1..3 : call.result[i].durationBeats = RInt(2)
    /\ call.result[1].notes
           # getVoicedChordNotes(call.result[1].root, call.result[1].quality, NoNotes,
                                 DefaultRange, TRUE)


----------------------------------------------------------------------------
(* SpecSingle: generateSingleChord applied once to an old chord, the notes   *)
(* of the chord before it, a key, a genre and a random source                *)

CallGenerateSingleChord ==
    /\ call = NoCall
    /\ \E shape \in {<<"C", RInt(4)>>, <<"F#", Rat(1, 2)>>}, quality \in Qualities,
          prevNotes \in {NoNotes, ScenarioChords[1].notes}, key \in ExtensionKeys,
          genre \in {"Jazz", "Pop", "Rock"}, r1, r2, r3 \in {0, RandDen - 1} :
        \E oldChord \in {MakeChord(shape[1], quality,
                                   getVoicedChordNotes(shape[1], quality, NoNotes,
                                                       DefaultRange, FALSE),
                                   shape[2])} :
        \E res \in {generateSingleChord(oldChord, prevNotes, key, genre,
                                        <<r1, r2, r3>>, 1)} :
            /\ call' = [fn |-> "generateSingleChord", oldChord |-> oldChord,
                        prevNotes |-> prevNotes, key |-> key, genre |-> genre,
                        random |-> <<r1, r2, r3>>, result |-> res.val]
            /\ UNCHANGED <<state, idCounter, ops, last>>

SpecSingle == InitPure /\ [][CallGenerateSingleChord]_vars

\* C15 as stated: the replacement keeps the old chord's root and durationBeats
\* and its quality is different from the old chord's quality.
C15_Original ==
    call.fn = "generateSingleChord" =>
        /\ call.result.root = call.oldChord.root
        /\ call.result.durationBeats = call.oldChord.durationBeats
        /\ call.result.quality # call.oldChord.quality

\* the candidate pool of generateSingleChord for a key
SingleCandidates(key) ==
    IF key.scale = "minor" THEN {"min7", "min9", "min11", "m7b5", "7", "dim7"}
    ELSE {"maj7", "maj9", "maj13", "7", "9", "13", "min7", "min9"}

\* C15 amended: the replacement keeps the old chord's root and durationBeats,
\* and its quality is a candidate of the key's pool other than the old
\* chord's quality, or an upgrade of such a candidate (which may be the old
\* chord's quality again).
C15_SingleChord ==
    call.fn = "generateSingleChord" =>
        /\ call.result.root = call.oldChord.root
        /\ call.result.durationBeats = call.oldChord.durationBeats
        /\ \E q \in SingleCandidates(call.key) \ {call.oldChord.quality} :
               \/ call.result.quality = q
               \/ SeqIncludes(Upgrades(q), call.result.quality)

\* an old F#maj9 of half a beat in C major, Jazz: maj7 was drawn and enriched
\* to maj9, the old chord's quality; root and duration are kept
C15_Witness ==
    /\ call.fn = "generateSingleChord"
    /\ call.oldChord.root = "F#"
    /\ call.oldChord.quality = "maj9"
    /\ call.oldChord.durationBeats = Rat(1, 2)
    /\ call.key.scale = "major"
    /\ call.genre = "Jazz"
    /\ call.result.quality = "maj9"
    /\ call.result.root = "F#"
    /\ call.result.durationBeats = Rat(1, 2)


----------------------------------------------------------------------------
(* Degree shift (getShiftedDegreeChord)                                      *)

DIATONIC_QUALITIES_MAJOR == <<"maj7", "min7", "min7", "maj7", "7", "min7", "m7b5">>

DIATONIC_QUALITIES_MINOR == <<"min7", "m7b5", "maj7", "min7", "min7", "maj7", "7">>

\* the forEach of getShiftedDegreeChord from index idx (0-based) on; minDistance
\* starts at Infinity, written 12 (every distance is below 12)
RECURSIVE NearestDegreeLoop(_, _, _, _, _)
NearestDegreeLoop(scaleNotes, rootMidi, idx, minDistance, currentDegreeIndex) ==
    IF idx >= Len(scaleNotes) THEN currentDegreeIndex
    ELSE LET noteMidi == NOTE_TO_MIDI(At0(scaleNotes, idx))
             distance == Abs((rootMidi - noteMidi + 12) % 12)
         IN  IF distance < minDistance
             THEN NearestDegreeLoop(scaleNotes, rootMidi, idx + 1, distance, idx)
             ELSE NearestDegreeLoop(scaleNotes, rootMidi, idx + 1, minDistance,
                                    currentDegreeIndex)

\* currentDegreeIndex of getShiftedDegreeChord before the shift
LocatedDegreeIndex(key, currentRoot) ==
    LET scaleNotes == getScaleNotes(key)
        found == IndexOf(scaleNotes, currentRoot)
    IN  IF found = -1
        THEN NearestDegreeLoop(scaleNotes, NOTE_TO_MIDI(currentRoot), 0, 12, found)
        ELSE found

\* getShiftedDegreeChord clamping the shifted index to 0..6 instead of wrapping
getShiftedDegreeChord_Clamped(key, currentRoot, direction) ==
    LET scaleNotes == getScaleNotes(key)
        currentDegreeIndex == LocatedDegreeIndex(key, currentRoot)
        newDegreeIndex == Max2(0, Min2(6, currentDegreeIndex + direction))
        qualities == IF key.scale = "major" THEN DIATONIC_QUALITIES_MAJOR
                     ELSE DIATONIC_QUALITIES_MINOR
    IN  [root |-> At0(scaleNotes, newDegreeIndex),
         quality |-> At0(qualities, newDegreeIndex),
         degree |-> newDegreeIndex + 1]

\* getShiftedDegreeChord(key, currentRoot, direction)
getShiftedDegreeChord(key, currentRoot, direction) ==
    LET scaleNotes == getScaleNotes(key)
        currentDegreeIndex == LocatedDegreeIndex(key, currentRoot)
        newDegreeIndex == (currentDegreeIndex + direction + 7) % 7
        qualities == IF key.scale = "major" THEN DIATONIC_QUALITIES_MAJOR
                     ELSE DIATONIC_QUALITIES_MINOR
    IN  [root |-> At0(scaleNotes, newDegreeIndex),
         quality |-> At0(qualities, newDegreeIndex),
         degree |-> newDegreeIndex + 1]

----------------------------------------------------------------------------
(* SpecShift: getShiftedDegreeChord applied to a key, a root and a           *)
(* direction, and then to the returned root in the opposite direction        *)

ShiftCall(key, currentRoot, direction, origin) ==
    [fn |-> "getShiftedDegreeChord", key |-> key, currentRoot |-> currentRoot,
     direction |-> direction, origin |-> origin,
     located |-> LocatedDegreeIndex(key, currentRoot),
     result |-> getShiftedDegreeChord(key, currentRoot, direction)]

\* no call came before this one
NoOrigin == "none"

CallShiftedDegreeChord ==
    /\ call = NoCall
    /\ \E key \in Keys, currentRoot \in NoteNames, direction \in {1, -1} :
        /\ call' = ShiftCall(key, currentRoot, direction, NoOrigin)
        /\ UNCHANGED <<state, idCounter, ops, last>>

CallShiftBack ==
    /\ call # NoCall
    /\ call.fn = "getShiftedDegreeChord"
    /\ call.origin = NoOrigin
    /\ call' = ShiftCall(call.key, call.result.root, 0 - call.direction,
                         call.currentRoot)
    /\ UNCHANGED <<state, idCounter, ops, last>>

NextShift == CallShiftedDegreeChord \/ CallShiftBack

SpecShift == InitPure /\ [][NextShift]_vars

\* the distance in semitones between two note names, the shorter way round
SemitonesApart(a, b) ==
    LET up == (IndexOf(NOTE_NAMES, a) - IndexOf(NOTE_NAMES, b) + 12) % 12
    IN  Min2(up, 12 - up)

\* C16: getShiftedDegreeChord locates a diatonic root at its own degree and a
\* non-diatonic root at a scale tone one semitone from it; it returns a degree
\* in 1..7 that is the located degree moved by the direction, wrapping 7 -> 1
\* upwards and 1 -> 7 downwards, the scale's note at that degree and the
\* diatonic table's quality at that degree; and shifting the root returned
\* for a diatonic root back in the opposite direction returns the first root.
C16_ShiftedDegree ==
    call.fn = "getShiftedDegreeChord" =>
        LET scaleNotes == getScaleNotes(call.key)
            locatedDegree == call.located + 1
            locatedNote == scaleNotes[locatedDegree]
            table == IF call.key.scale = "major" THEN DIATONIC_QUALITIES_MAJOR
                     ELSE DIATONIC_QUALITIES_MINOR
            expected == IF call.direction = 1
                        THEN (IF locatedDegree = 7 THEN 1 ELSE locatedDegree + 1)
                        ELSE (IF locatedDegree = 1 THEN 7 ELSE locatedDegree - 1)
        IN  /\ locatedDegree \in 1..7
            /\ SeqIncludes(scaleNotes, call.currentRoot) => locatedNote = call.currentRoot
            /\ ~SeqIncludes(scaleNotes, call.currentRoot)
                   => SemitonesApart(locatedNote, call.currentRoot) = 1
            /\ call.result.degree \in 1..7
            /\ call.result.degree = expected
            /\ call.result.root = scaleNotes[call.result.degree]
            /\ SeqIncludes(scaleNotes, call.result.root)
            /\ call.result.quality = table[call.result.degree]
            /\ (call.origin # NoOrigin /\ SeqIncludes(scaleNotes, call.origin))
                   => call.result.root = call.origin

\* in D major the diatonic root C# (degree 7) was shifted up to D (degree 1,
\* maj7), and D was then shifted down: back at C#, degree 7, m7b5
C16_Witness ==
    /\ call.fn = "getShiftedDegreeChord"
    /\ call.key = [root |-> "D", scale |-> "major"]
    /\ call.origin = "C#"
    /\ call.currentRoot = "D"
    /\ call.direction = 0 - 1
    /\ call.result = [root |-> "C#", quality |-> "m7b5", degree |-> 7]


----------------------------------------------------------------------------
(* Bassline generator                                                        *)

\* a / 4, a * n and Math.floor(a) for a beat count a >= 0 and an integer n
RQuarter(a) == Rat(a[1], a[2] * 4)

RTimes(a, n) == Rat(a[1] * n, a[2])

RFloor(a) == a[1] \div a[2]

BasslinePatterns == {"none", "root-only", "root-fifth", "walking", "syncopated", "octave"}

\* NOTE_TO_MIDI of the bassline generator: the bass register, C = 36
BASS_NOTE_TO_MIDI(note) == 36 + IndexOf(NOTE_NAMES, note)

\* getChordIntervals(quality)
getChordIntervals(quality) ==
    IF \/ QualityIncludes(quality, <<"m", "i", "n">>)
       \/ QualityIncludes(quality, <<"m", "7">>)
       \/ quality = "dim7"
       \/ quality = "m7b5"
    THEN [third |-> 3,
          fifth |-> IF QualityIncludes(quality, <<"b", "5">>) \/ quality = "dim7"
                    THEN 6 ELSE 7]
    ELSE [third |-> 4, fifth |-> 7]

\* getRootMidi(chord)
getRootMidi(chord) == BASS_NOTE_TO_MIDI(chord.root)

BassNote(midiNote, startBeat, durationBeats, velocity) ==
    [midiNote |-> midiNote, startBeat |-> startBeat,
     durationBeats |-> durationBeats, velocity |-> velocity]

\* generateBassline(chord, pattern, startBeat)
generateBassline(chord, pattern, startBeat) ==
    LET rootMidi == getRootMidi(chord)
        third == getChordIntervals(chord.quality).third
        fifth == getChordIntervals(chord.quality).fifth
        duration == chord.durationBeats
        velocity == 90
        eighth == Rat(1, 2)
    IN  CASE pattern = "none" -> <<>>
          [] pattern = "root-only" ->
                <<BassNote(rootMidi, startBeat, duration, velocity)>>
          [] pattern = "root-fifth" ->
                <<BassNote(rootMidi, startBeat, RHalf(duration), velocity),
                  BassNote(rootMidi + fifth, RAdd(startBeat, RHalf(duration)),
                           RHalf(duration), velocity - 10)>>
          [] pattern = "walking" ->
                IF RLeq(RInt(4), duration)
                THEN LET beatDuration == RQuarter(duration)
                     IN  <<BassNote(rootMidi, startBeat, beatDuration, velocity),
                           BassNote(rootMidi + third, RAdd(startBeat, beatDuration),
                                    beatDuration, velocity - 5),
                           BassNote(rootMidi + fifth,
                                    RAdd(startBeat, RTimes(beatDuration, 2)),
                                    beatDuration, velocity - 5),
                           BassNote(rootMidi + fifth + 2,
                                    RAdd(startBeat, RTimes(beatDuration, 3)),
                                    beatDuration, velocity - 10)>>
                ELSE IF RLeq(RInt(2), duration)
                THEN <<BassNote(rootMidi, startBeat, RHalf(duration), velocity),
                       BassNote(rootMidi + fifth, RAdd(startBeat, RHalf(duration)),
                                RHalf(duration), velocity - 5)>>
                ELSE <<BassNote(rootMidi, startBeat, duration, velocity)>>
          [] pattern = "syncopated" ->
                IF RLeq(RInt(2), duration)
                THEN [n \in 1..RFloor(duration) |->
                        LET i == n - 1
                            currentBeat == RAdd(startBeat, RInt(i))
                        IN  BassNote(IF i % 2 = 0 THEN rootMidi ELSE rootMidi + fifth,
                                     RAdd(currentBeat, eighth), eighth,
                                     velocity - (IF i % 2 = 0 THEN 0 ELSE 10))]
                ELSE <<BassNote(rootMidi, RAdd(startBeat, Rat(1, 2)), Rat(1, 2),
                                velocity)>>
          [] pattern = "octave" ->
                IF RLeq(RInt(1), duration)
                THEN [n \in 1..RFloor(RTimes(duration, 2)) |->
                        LET i == n - 1
                        IN  BassNote(IF i % 2 = 0 THEN rootMidi ELSE rootMidi + 12,
                                     RAdd(startBeat, RTimes(eighth, i)), eighth,
                                     IF i % 2 = 0 THEN velocity ELSE velocity - 15)]
                ELSE <<BassNote(rootMidi, startBeat, duration, velocity)>>
          [] OTHER -> <<>>

\* the loop of generateProgressionBassline from chord i (1-based) on
RECURSIVE ProgressionBasslineLoop(_, _, _, _, _)
ProgressionBasslineLoop(chords, pattern, i, allNotes, currentBeat) ==
    IF i > Len(chords) THEN allNotes
    ELSE Bind(allNotes \o generateBassline(chords[i], pattern, currentBeat),
              LAMBDA pushed :
             Bind(RAdd(currentBeat, chords[i].durationBeats), LAMBDA nextBeat :
                 ProgressionBasslineLoop(chords, pattern, i + 1, pushed, nextBeat)))

\* generateProgressionBassline(chords, pattern)
generateProgressionBassline(chords, pattern) ==
    IF pattern = "none" THEN <<>>
    ELSE ProgressionBasslineLoop(chords, pattern, 1, <<>>, RInt(0))

----------------------------------------------------------------------------
(* SpecBassline: generateBassline applied once to a chord, a pattern and a   *)
(* start beat, and generateProgressionBassline applied once to two chords    *)
(* and a pattern                                                             *)

\* durationBeats of a chord: every multiple of 1/2 in [1/2, 8], and the 5/4
\* INSERT_CHORD leaves of a chord of 5/2
BassDurations == {Rat(h, 2) : h \in 1..16} \cup {Rat(5, 4)}

CallGenerateBassline ==
    /\ call = NoCall
    /\ \E quality \in Qualities :
        \E voiced \in {VoicedChord("C", quality, NoNotes)} :
        \E d \in BassDurations, pattern \in BasslinePatterns,
           startBeat \in {RInt(0), Rat(3, 2)} :
        \E chord \in {[voiced EXCEPT !.durationBeats = d]} :
            /\ call' = [fn |-> "generateBassline", chord |-> chord,
                        pattern |-> pattern, startBeat |-> startBeat,
                        intervals |-> getChordIntervals(chord.quality),
                        result |-> generateBassline(chord, pattern, startBeat)]
            /\ UNCHANGED <<state, idCounter, ops, last>>

CallGenerateProgressionBassline ==
    /\ call = NoCall
    /\ \E d1 \in BassDurations, d2 \in BassDurations, pattern \in BasslinePatterns :
        \E chords \in {<<[ScenarioChords[1] EXCEPT !.durationBeats = d1],
                         [ScenarioChords[3] EXCEPT !.durationBeats = d2]>>} :
            /\ call' = [fn |-> "generateProgressionBassline", chords |-> chords,
                        pattern |-> pattern,
                        result |-> generateProgressionBassline(chords, pattern)]
            /\ UNCHANGED <<state, idCounter, ops, last>>

NextBassline == CallGenerateBassline \/ CallGenerateProgressionBassline

SpecBassline == InitPure /\ [][NextBassline]_vars

\* C17: the interval classifier gives third 3 for every quality whose name
\* contains 'min' and for dim, dim7 and m7b5, fifth 6 for dim, dim7 and m7b5,
\* and third 4 and fifth 7 otherwise.
C17_BassIntervals ==
    call.fn = "generateBassline" =>
        LET quality == call.chord.quality
            diminished == quality \in {"dim", "dim7", "m7b5"}
            minor == QualityIncludes(quality, <<"m", "i", "n">>)
        IN  /\ (minor \/ diminished) => call.intervals.third = 3
            /\ diminished => call.intervals.fifth = 6
            /\ ~(minor \/ diminished) => call.intervals = [third |-> 4, fifth |-> 7]
            /\ (minor /\ ~diminished) => call.intervals.fifth = 7


\* the beat at which chord i of a progression starts: the sum of the
\* durations of the chords before it
RECURSIVE ChordStart(_, _)
ChordStart(chords, i) ==
    IF i = 1 THEN RInt(0)
    ELSE RAdd(ChordStart(chords, i - 1), chords[i - 1].durationBeats)

\* the notes generateBassline emits for each chord of the recorded call
C20_Segments ==
    [i \in 1..Len(call.chords) |->
        generateBassline(call.chords[i], call.pattern, ChordStart(call.chords, i))]

\* C20: for a pattern other than 'none' the bassline of a progression is the
\* notes emitted chord by chord, and every note emitted for a chord that
\* starts at beat s and lasts d beats starts at or after s and ends at or
\* before s + d.
C20_BassNotesWithinChord ==
    (call.fn = "generateProgressionBassline" /\ call.pattern # "none") =>
        /\ call.result = C20_Segments[1] \o C20_Segments[2]
        /\ \A i \in 1..Len(call.chords) :
               LET s == ChordStart(call.chords, i)
                   d == call.chords[i].durationBeats
                   notes == C20_Segments[i]
               IN  \A n \in 1..Len(notes) :
                       /\ RLeq(s, notes[n].startBeat)
                       /\ RLeq(RAdd(notes[n].startBeat, notes[n].durationBeats),
                               RAdd(s, d))


----------------------------------------------------------------------------
(* SpecPassingQuality: generatePassingChord applied once to two neighbors of *)
(* any two qualities                                                         *)

CallPassingChordBetween ==
    /\ call = NoCall
    /\ \E prevQuality \in Qualities :
        \E prevChord \in {VoicedChord("C", prevQuality, NoNotes)} :
        \E nextQuality \in Qualities :
        \E nextChord \in {VoicedChord("E", nextQuality, prevChord.notes)} :
        \E genre \in {"Jazz", "Rock"}, r \in {0, RandDen - 1} :
        \E res \in {generatePassingChord(prevChord, nextChord,
                                         [root |-> "C", scale |-> "major"], genre,
                                         <<r>>, 1)} :
            /\ call' = [fn |-> "generatePassingChord", prevChord |-> prevChord,
                        nextChord |-> nextChord, genre |-> genre, random |-> r,
                        result |-> res.val]
            /\ UNCHANGED <<state, idCounter, ops, last>>

SpecPassingQuality == InitPure /\ [][CallPassingChordBetween]_vars

MinorFamily == {"min", "min7", "min9", "min11", "min13"}

\* C18: generatePassingChord chooses '7' when either neighbor is a '7',
\* otherwise 'min7' when either neighbor is min, min7, min9, min11 or min13,
\* otherwise 'maj7'; it returns that choice or one of its upgrades, and the
\* choice itself when the draw is above the genre's enrichment chance.
C18_PassingQuality ==
    call.fn = "generatePassingChord" =>
        LET p == call.prevChord.quality
            n == call.nextChord.quality
            choice == IF p = "7" \/ n = "7" THEN "7"
                      ELSE IF p \in MinorFamily \/ n \in MinorFamily THEN "min7"
                      ELSE "maj7"
        IN  /\ \/ call.result.quality = choice
               \/ SeqIncludes(Upgrades(choice), call.result.quality)
            /\ call.random * 10 > ENRICHMENT_CHANCE(call.genre) * RandDen
                   => call.result.quality = choice

\* between a min9 chord and a 7 chord, Rock and a draw above the chance: the
\* passing chord is a 7 although one neighbor is minor
C18_Witness ==
    /\ call.fn = "generatePassingChord"
    /\ call.prevChord.quality = "min9"
    /\ call.nextChord.quality = "7"
    /\ call.genre = "Rock"
    /\ call.random = RandDen - 1
    /\ call.result.quality = "7"


----------------------------------------------------------------------------
(* Melody generator                                                          *)

\* a - b on beat counts
RSub(a, b) == Rat(a[1] * b[2] - b[1] * a[2], a[2] * b[2])

MelodyPatterns == {"none", "simple", "smooth", "rhythmic"}

MELODY_MIN_NOTE == 60

MELODY_MAX_NOTE == 84

\* getChordNotes(root, quality) at the default octave 4
getChordNotes(root, quality) ==
    [i \in 1..Len(CHORD_INTERVALS(quality)) |->
        NOTE_TO_MIDI(root) + CHORD_INTERVALS(quality)[i]]

\* snapToScale(midiNote, key) without the search of the neighbours
snapToScale_NoSearch(midiNote, key) == midiNote

\* snapToScale(midiNote, key)
snapToScale(midiNote, key) ==
    IF melodyIsNoteInScale(midiNote, key) THEN midiNote
    ELSE IF melodyIsNoteInScale(midiNote + 1, key) THEN midiNote + 1
    ELSE IF melodyIsNoteInScale(midiNote - 1, key) THEN midiNote - 1
    ELSE IF melodyIsNoteInScale(midiNote + 2, key) THEN midiNote + 2
    ELSE IF melodyIsNoteInScale(midiNote - 2, key) THEN midiNote - 2
    ELSE midiNote

\* the notes of min..max that satisfy Keep, in ascending order
RECURSIVE RangeCandidates(_, _, _)
RangeCandidates(note, max, keep) ==
    IF note > max THEN <<>>
    ELSE (IF note \in keep THEN <<note>> ELSE <<>>)
         \o RangeCandidates(note + 1, max, keep)

\* getRandomChordTone(chord) with the default range
getRandomChordTone(chord, rs, k) ==
    LET baseNotes == getChordNotes(chord.root, chord.quality)
        toneClasses == {baseNotes[i] % 12 : i \in 1..Len(baseNotes)}
        candidates ==
            RangeCandidates(MELODY_MIN_NOTE, MELODY_MAX_NOTE,
                            {n \in MELODY_MIN_NOTE..MELODY_MAX_NOTE : n % 12 \in toneClasses})
    IN  IF Len(candidates) = 0 THEN [val |-> 60, k |-> k]
        ELSE pickRandom(candidates, rs, k)

\* getRandomScaleTone(key) with the default range
getRandomScaleTone(key, rs, k) ==
    LET candidates ==
            RangeCandidates(MELODY_MIN_NOTE, MELODY_MAX_NOTE,
                            {n \in MELODY_MIN_NOTE..MELODY_MAX_NOTE :
                                melodyIsNoteInScale(n, key)})
    IN  IF Len(candidates) = 0 THEN [val |-> 60, k |-> k]
        ELSE pickRandom(candidates, rs, k)

\* case 'simple': the loop from currentBeat on
RECURSIVE SimpleLoop(_, _, _, _, _, _, _)
SimpleLoop(chord, key, startBeat, currentBeat, notes, rs, k) ==
    IF ~RLess(currentBeat, chord.durationBeats) THEN [val |-> notes, k |-> k]
    ELSE
        LET remaining == RSub(chord.durationBeats, currentBeat)
            long == RLeq(RInt(2), remaining)
            noteDur == IF long /\ 2 * Draw(rs, k) > RandDen THEN RInt(2)
                       ELSE IF RLeq(RInt(1), remaining) THEN RInt(1)
                       ELSE remaining
            k1 == IF long THEN k + 1 ELSE k
            tone == IF 5 * Draw(rs, k1) < 4 * RandDen
                    THEN getRandomChordTone(chord, rs, k1 + 1)
                    ELSE getRandomScaleTone(key, rs, k1 + 1)
            note == BassNote(tone.val, RAdd(startBeat, currentBeat), noteDur,
                             90 + RandomIndex(rs, tone.k, 10))
        IN  SimpleLoop(chord, key, startBeat, RAdd(currentBeat, noteDur),
                       Append(notes, note), rs, tone.k + 1)

\* case 'smooth': the loop from currentBeat on, after lastNote
RECURSIVE SmoothLoop(_, _, _, _, _, _, _, _)
SmoothLoop(chord, key, startBeat, currentBeat, lastNote, notes, rs, k) ==
    IF ~RLess(currentBeat, chord.durationBeats) THEN [val |-> notes, k |-> k]
    ELSE
        LET remaining == RSub(chord.durationBeats, currentBeat)
            room == RLeq(RInt(1), remaining)
            noteDur == IF room /\ 10 * Draw(rs, k) > 7 * RandDen
                       THEN RInt(1) ELSE Rat(1, 2)
            k1 == IF room THEN k + 1 ELSE k
            interval == RandomIndex(rs, k1, 5) - 2
            snapped == snapToScale(lastNote + interval, key)
            raised == IF snapped < MELODY_MIN_NOTE THEN snapped + 12 ELSE snapped
            nextNote == IF raised > MELODY_MAX_NOTE THEN raised - 12 ELSE raised
            note == BassNote(nextNote, RAdd(startBeat, currentBeat), noteDur,
                             85 + RandomIndex(rs, k1 + 1, 15))
        IN  SmoothLoop(chord, key, startBeat, RAdd(currentBeat, noteDur),
                       nextNote, Append(notes, note), rs, k1 + 2)

\* case 'rhythmic': the loop from currentBeat on
RECURSIVE RhythmicLoop(_, _, _, _, _, _, _)
RhythmicLoop(chord, key, startBeat, currentBeat, notes, rs, k) ==
    IF ~RLess(currentBeat, chord.durationBeats) THEN [val |-> notes, k |-> k]
    ELSE
        LET beatTypes == <<Rat(1, 2), Rat(1, 2), RInt(1), Rat(3, 2)>>
            type == At0(beatTypes, RandomIndex(rs, k, Len(beatTypes)))
            noteDur == IF RLess(chord.durationBeats, RAdd(currentBeat, type))
                       THEN RSub(chord.durationBeats, currentBeat)
                       ELSE type
            isRest == 10 * Draw(rs, k + 1) < RandDen
            sounding == ~isRest /\ RLess(RInt(0), noteDur)
            tone == IF sounding THEN getRandomScaleTone(key, rs, k + 2)
                    ELSE [val |-> 0, k |-> k + 2]
            newNotes == IF sounding
                        THEN Append(notes, BassNote(tone.val, RAdd(startBeat, currentBeat),
                                                    noteDur, 95))
                        ELSE notes
        IN  IF ~RLess(RInt(0), noteDur) THEN [val |-> newNotes, k |-> tone.k]
            ELSE RhythmicLoop(chord, key, startBeat, RAdd(currentBeat, noteDur),
                              newNotes, rs, tone.k)

\* generateMelody(chord, key, pattern, startBeat)
generateMelody(chord, key, pattern, startBeat, rs, k) ==
    IF pattern = "simple" THEN SimpleLoop(chord, key, startBeat, RInt(0), <<>>, rs, k)
    ELSE IF pattern = "smooth"
    THEN LET first == getRandomChordTone(chord, rs, k)
         IN  SmoothLoop(chord, key, startBeat, RInt(0), first.val, <<>>, rs, first.k)
    ELSE IF pattern = "rhythmic"
    THEN RhythmicLoop(chord, key, startBeat, RInt(0), <<>>, rs, k)
    ELSE [val |-> <<>>, k |-> k]

\* generateProgressionMelody(chords, key, pattern): the loop from chord i on
RECURSIVE ProgressionMelodyLoop(_, _, _, _, _, _, _, _)
ProgressionMelodyLoop(chords, key, pattern, i, allNotes, currentBeat, rs, k) ==
    IF i > Len(chords) THEN allNotes
    ELSE LET notes == generateMelody(chords[i], key, pattern, currentBeat, rs, k)
         IN  ProgressionMelodyLoop(chords, key, pattern, i + 1, allNotes \o notes.val,
                                   RAdd(currentBeat, chords[i].durationBeats),
                                   rs, notes.k)

\* generateProgressionMelody(chords, key, pattern)
generateProgressionMelody(chords, key, pattern, rs, k) ==
    IF pattern = "none" THEN <<>>
    ELSE ProgressionMelodyLoop(chords, key, pattern, 1, <<>>, RInt(0), rs, k)

----------------------------------------------------------------------------
(* SpecMelody: the melody generator applied once to a chord or to two chords *)

CallGenerateMelody ==
    /\ call = NoCall
    /\ \E d \in {Rat(1, 2), RInt(1), Rat(5, 4), Rat(5, 2), RInt(4)},
          c \in {1, 3}, pattern \in MelodyPatterns,
          key \in {[root |-> "C", scale |-> "major"], [root |-> "F#", scale |-> "minor"]},
          startBeat \in {RInt(0), Rat(3, 2)}, rs \in [1..2 -> Rand] :
        \E chord \in {[ScenarioChords[c] EXCEPT !.durationBeats = d]} :
            /\ call' = [fn |-> "generateMelody", chord |-> chord, key |-> key,
                        pattern |-> pattern, startBeat |-> startBeat,
                        first |-> getRandomChordTone(chord, rs, 1).val,
                        result |-> IF pattern = "none" THEN <<>>
                                   ELSE generateMelody(chord, key, pattern,
                                                       startBeat, rs, 1).val]
            /\ UNCHANGED <<state, idCounter, ops, last>>

CallGenerateProgressionMelody ==
    /\ call = NoCall
    /\ \E d1 \in {Rat(5, 4), RInt(2)}, d2 \in {Rat(1, 2), RInt(4)},
          pattern \in MelodyPatterns, rs \in [1..2 -> Rand] :
        \E chords \in {<<[ScenarioChords[1] EXCEPT !.durationBeats = d1],
                         [ScenarioChords[3] EXCEPT !.durationBeats = d2]>>} :
            /\ call' = [fn |-> "generateProgressionMelody", chords |-> chords,
                        key |-> [root |-> "C", scale |-> "major"], pattern |-> pattern,
                        result |-> generateProgressionMelody(
                                       chords, [root |-> "C", scale |-> "major"],
                                       pattern, rs, 1)]
            /\ UNCHANGED <<state, idCounter, ops, last>>

NextMelody == CallGenerateMelody \/ CallGenerateProgressionMelody

SpecMelody == InitPure /\ [][NextMelody]_vars

\* the notes of one chord's segment lie inside [s, s + d]
NotesWithin(notes, s, d) ==
    \A i \in 1..Len(notes) :
        /\ RLeq(s, notes[i].startBeat)
        /\ RLeq(RAdd(notes[i].startBeat, notes[i].durationBeats), RAdd(s, d))

\* C21: for every melody pattern, every chord duration the application can
\* reach and every outcome of the random draws, each note the melody loop
\* emits for a chord that starts at beat s and lasts d beats starts at or
\* after s and ends at or before s + d
C21_MelodyNotesWithinChord ==
    call.fn = "generateMelody" =>
        NotesWithin(call.result, call.startBeat, call.chord.durationBeats)

\* C22: every note the 'smooth' pattern emits is a note of the key's scale and
\* lies in the register 60..84, also when the starting chord tone is outside
\* the scale
C22_SmoothInScaleAndRegister ==
    (call.fn = "generateMelody" /\ call.pattern = "smooth") =>
        \A i \in 1..Len(call.result) :
            /\ call.result[i].midiNote % 12 \in ScalePitchClasses(call.key)
            /\ call.result[i].midiNote >= MELODY_MIN_NOTE
            /\ call.result[i].midiNote <= MELODY_MAX_NOTE

\* a 'smooth' melody of several notes whose starting chord tone is outside the
\* scale and whose walk left the register once and was moved back by an octave
C22_Witness ==
    /\ call.fn = "generateMelody"
    /\ call.pattern = "smooth"
    /\ call.first % 12 \notin ScalePitchClasses(call.key)
    /\ Len(call.result) >= 4
    /\ \E i \in 1..(Len(call.result) - 1) :
           Abs(call.result[i + 1].midiNote - call.result[i].midiNote) >= 8


----------------------------------------------------------------------------
(* SpecInsertions: from the state the mount effect's generate() leaves, the  *)
(* + buttons of Main pressed one after another                               *)

\* the most + buttons pressed
MaxInserts == 5

\* insertChord(progressionId, insertIndex) for the + button after the first,
\* after the second or before the last chord block of Main
insertChordIntoMain ==
    /\ ops < MaxInserts
    /\ \E prog \in {state.mainProgression} :
        \E insertIndex \in {1, 2, Len(prog.chords) - 1} :
            /\ ~(insertIndex <= 0 \/ insertIndex >= Len(prog.chords))
            /\ \E passingChord \in
                    {generatePassingChord(At0(prog.chords, insertIndex - 1),
                                          At0(prog.chords, insertIndex),
                                          state.settings.key, state.settings.genre,
                                          <<0>>, 1).val} :
                 \E payload \in {[progressionId |-> prog.id, insertIndex |-> insertIndex,
                                  newChord |-> passingChord]} :
                    /\ state' = InsertChord(state, payload)
                    /\ idCounter' = idCounter
                    /\ Ran("INSERT_CHORD", payload)

SpecInsertions == Init /\ [][insertChordIntoMain]_vars

\* C23: in every state reachable by generate, regenerate, swap, passing-chord
\* insertion and extension, each progression holds at most 8 chords
C23_AtMostEightChords ==
    \A i \in 1..Len(AllProgressions(state)) :
        Len(AllProgressions(state)[i].chords) <= 8


----------------------------------------------------------------------------
(* Further claims about the reducer (SpecReducer) *)

\* how many chord blocks of Main and the Bridges of s hold chord c
ChordCount(s, c) ==
    SumSeq([i \in 1..Len(AllProgressions(s)) |->
               Cardinality({j \in 1..Len(AllProgressions(s)[i].chords) :
                               AllProgressions(s)[i].chords[j] = c})])

\* the last dispatch was SWAP_CHORD with two known progression ids and both
\* indices inside their progressions
C24_Case ==
    /\ last.type = "SWAP_CHORD"
    /\ HasProgression(last.before, last.payload.sourceProgId)
    /\ HasProgression(last.before, last.payload.targetProgId)
    /\ last.payload.sourceIdx \in
            0..(Len(findProgression(last.before, last.payload.sourceProgId).chords) - 1)
    /\ last.payload.targetIdx \in
            0..(Len(findProgression(last.before, last.payload.targetProgId).chords) - 1)

\* C24: SWAP_CHORD with known progression ids and both indices inside their
\* progressions neither creates nor loses a chord: every chord occurs as often
\* over Main and the Bridges as before and every progression keeps its length,
\* for one progression and for two; for two, the two addressed chords have
\* exchanged places and every other chord block is as it was
C24_SwapConservesChords ==
    C24_Case =>
        LET p == last.payload
            old == AllProgressions(last.before)
            new == AllProgressions(state)
        IN  /\ \A c \in AllChords(last.before) \cup AllChords(state) :
                    ChordCount(state, c) = ChordCount(last.before, c)
            /\ Len(new) = Len(old)
            /\ \A i \in 1..Len(old) : /\ Len(new[i].chords) = Len(old[i].chords)
                                      /\ new[i].id = old[i].id
            /\ p.sourceProgId # p.targetProgId =>
                \A i \in 1..Len(old) : \A j \in 1..Len(old[i].chords) :
                    new[i].chords[j] =
                        IF old[i].id = p.sourceProgId /\ j = p.sourceIdx + 1
                        THEN At0(findProgression(last.before, p.targetProgId).chords,
                                 p.targetIdx)
                        ELSE IF old[i].id = p.targetProgId /\ j = p.targetIdx + 1
                        THEN At0(findProgression(last.before, p.sourceProgId).chords,
                                 p.sourceIdx)
                        ELSE old[i].chords[j]

\* the second chord of Main was swapped with the fourth chord of Bridge 2, two
\* different chords, and each now stands where the other stood
C24_Witness ==
    /\ C24_Case
    /\ last.payload.sourceProgId = last.before.mainProgression.id
    /\ last.payload.targetProgId = last.before.bridgeProgressions[2].id
    /\ last.payload.sourceIdx = 1
    /\ last.payload.targetIdx = 3
    /\ state.mainProgression.chords[2] = last.before.bridgeProgressions[2].chords[4]
    /\ state.bridgeProgressions[2].chords[4] = last.before.mainProgression.chords[2]
    /\ state.mainProgression.chords[2] # last.before.mainProgression.chords[2]


\* the beat length of a chord list: the sum of its durationBeats
RECURSIVE TotalBeats(_)
TotalBeats(chords) ==
    IF chords = <<>> THEN RInt(0)
    ELSE RAdd(Head(chords).durationBeats, TotalBeats(Tail(chords)))

\* the last dispatch was INSERT_CHORD of a 2-beat chord into a known
\* progression at an index the reducer accepts
C25_Case ==
    /\ last.type = "INSERT_CHORD"
    /\ HasProgression(last.before, last.payload.progressionId)
    /\ last.payload.insertIndex > 0
    /\ last.payload.insertIndex <= Len(PayloadChords(last.before, last.payload))
    /\ last.payload.newChord.durationBeats = RInt(2)

\* C25: inserting a 2-beat passing chord with INSERT_CHORD leaves the
\* progression's total beat length unchanged if and only if the preceding
\* chord lasted exactly 4 beats; the total grows when the preceding chord was
\* shorter than 4 beats and shrinks when it was longer
C25_InsertKeepsLengthOnlyAtFour ==
    C25_Case =>
        LET before == TotalBeats(PayloadChords(last.before, last.payload))
            after == TotalBeats(PayloadChords(state, last.payload))
            d == PayloadChords(last.before, last.payload)[last.payload.insertIndex]
                     .durationBeats
        IN  /\ (after = before) <=> (d = RInt(4))
            /\ RLess(d, RInt(4)) => RLess(before, after)
            /\ RLess(RInt(4), d) => RLess(after, before)

\* a passing chord went in after a chord of 8 beats of Main, and Main is
\* 2 beats shorter than it was
C25_Witness ==
    /\ C25_Case
    /\ last.payload.progressionId = last.before.mainProgression.id
    /\ PayloadChords(last.before, last.payload)[last.payload.insertIndex].durationBeats
            = RInt(8)
    /\ RAdd(TotalBeats(state.mainProgression.chords), RInt(2))
            = TotalBeats(last.before.mainProgression.chords)


\* the last dispatch was one the reducer rejects: INSERT_CHORD with an unknown
\* progression id, an insertIndex <= 0 or an insertIndex greater than the
\* progression's length, or SWAP_CHORD with an unknown source or target id
C27_Case ==
    \/ /\ last.type = "INSERT_CHORD"
       /\ \/ ~HasProgression(last.before, last.payload.progressionId)
          \/ last.payload.insertIndex <= 0
          \/ last.payload.insertIndex > Len(PayloadChords(last.before, last.payload))
    \/ /\ last.type = "SWAP_CHORD"
       /\ \/ ~HasProgression(last.before, last.payload.sourceProgId)
          \/ ~HasProgression(last.before, last.payload.targetProgId)

\* C27: INSERT_CHORD with an unknown progression id, an insertIndex <= 0 or an
\* insertIndex greater than the progression's length, and SWAP_CHORD with an
\* unknown source or target progression id, return the state unchanged
C27_RejectedDispatchKeepsState ==
    C27_Case => state = last.before

\* INSERT_CHORD into Main at insertIndex 5, one past its 4 chords, was rejected
C27_Witness ==
    /\ last.type = "INSERT_CHORD"
    /\ last.payload.progressionId = last.before.mainProgression.id
    /\ Len(last.before.mainProgression.chords) = 4
    /\ last.payload.insertIndex = 5
    /\ state = last.before


----------------------------------------------------------------------------
(* SpecPlayback: a progression row.  `state` is the row: its React state     *)
(* (isPlaying, playingIndex, the mutes, the bassline pattern),               *)
(* stopRef.current, its props (the progression's chords, the tempo) and the  *)
(* timers window.setTimeout holds.  A stop handle is the number of the       *)
(* playback that returned it; idCounter numbers the playbacks.  Time is in   *)
(* seconds and relative, as setTimeout's delays are: a timer holds the time  *)
(* left until it is due, and the passing of time shortens it.  A timer also  *)
(* keeps what its callback closed over when Play was pressed: the number of  *)
(* chords of the progression and the length of its chord in seconds.         *)

\* the most gestures on a row: presses of Play / Stop, choices of a bassline
\* pattern, mute changes and changes of the progression or the tempo
MaxPresses == 6

\* stopRef.current = {}
NoStopHandles == [chord |-> 0, bass |-> 0]

\* (beats * 60) / tempo: the seconds a number of beats lasts
BeatSeconds(beats, tempo) == Rat(beats[1] * 60, beats[2] * tempo)

\* the tempos the row is rendered with
RowTempos == {60, 120}

\* the longest time that passes between two states: one second
Tick == RInt(1)

\* a row that has not played yet; playingIndex -1 stands for null; remaining
\* is the time left of the progression the last Play read
RowState(chords, chordsMuted, bassMuted, basslinePattern) ==
    [isPlaying |-> FALSE, playingIndex |-> -1, stopRef |-> NoStopHandles,
     chords |-> chords, tempo |-> 60,
     chordsMuted |-> chordsMuted, bassMuted |-> bassMuted,
     basslinePattern |-> basslinePattern,
     timers |-> {}, remaining |-> RInt(0)]

\* the row as it mounts: useState('none'), useState(false), useState(false)
InitPlayback ==
    /\ state \in {[RowState(SubSeq(ScenarioChords, 1, n), FALSE, FALSE, "none")
                      EXCEPT !.tempo = tempo] : n \in 1..3, tempo \in RowTempos}
    /\ idCounter = 0
    /\ ops = 0
    /\ last = NoOp
    /\ call = NoCall

\* the timers playProgression / playProgressionWithPattern set for playback p:
\* onChordPlay(index) after the chords before chord index
ChordTimers(chords, tempo, p) ==
    {[kind |-> "chord", playback |-> p, index |-> i - 1,
      count |-> Len(chords),
      duration |-> BeatSeconds(chords[i].durationBeats, tempo),
      delay |-> BeatSeconds(TotalBeats(SubSeq(chords, 1, i - 1)), tempo)] :
        i \in 1..Len(chords)}

\* the timer that resets the row, set by playback p
ResetTimer(p, delay) ==
    [kind |-> "reset", playback |-> p, index |-> -1,
     count |-> 0, duration |-> RInt(0), delay |-> delay]

\* setIsPlaying(false); setPlayingIndex(null); stopRef.current = {}
RowReset(s) == [s EXCEPT !.isPlaying = FALSE, !.playingIndex = -1,
                         !.stopRef = NoStopHandles]

\* handlePlayAll while the row is not playing
PlayAll(s, p) ==
    LET chordOn == ~s.chordsMuted /\ Len(s.chords) > 0
        bassOn == ~s.bassMuted /\ s.basslinePattern # "none" /\ Len(s.chords) > 0
        bassNotes == generateProgressionBassline(s.chords, s.basslinePattern)
        bassOnly == s.chordsMuted /\ ~s.bassMuted /\ s.basslinePattern # "none"
        totalDuration == BeatSeconds(TotalBeats(s.chords), s.tempo)
    IN  [s EXCEPT
            !.isPlaying = TRUE,
            !.remaining = totalDuration,
            !.stopRef = [chord |-> IF chordOn THEN p ELSE @.chord,
                         bass |-> IF bassOn /\ Len(bassNotes) > 0 THEN p ELSE @.bass],
            !.timers = (@ \cup (IF chordOn THEN ChordTimers(s.chords, s.tempo, p) ELSE {}))
                         \cup (IF bassOnly THEN {ResetTimer(p, totalDuration)} ELSE {})]

\* handlePlayAll while the row is playing: the chord playback's stop() clears
\* the timeouts playProgression kept, and the row is reset
StopAll(s) ==
    RowReset([s EXCEPT !.timers = {t \in @ : ~(t.kind = "chord" /\
                                               t.playback = s.stopRef.chord)}])

\* the callback of timer t, run when t is due
TimerFired(s, t) ==
    LET at == [s EXCEPT !.timers = @ \ {t}]
    IN  IF t.kind = "reset" THEN RowReset(at)
        ELSE [at EXCEPT
                !.playingIndex = t.index,
                !.timers = IF t.index = t.count - 1
                           THEN @ \cup {ResetTimer(t.playback, t.duration)}
                           ELSE @]

\* the row d seconds later
Elapsed(s, d) ==
    [s EXCEPT !.timers = {[t EXCEPT !.delay = RSub(@, d)] : t \in @},
              !.remaining = RMax(RInt(0), RSub(@, d))]

\* the time until the next timer is due, at most Tick
NextDelay(s) ==
    IF s.timers = {} THEN Tick
    ELSE LET delays == {t.delay : t \in s.timers}
         IN  RMin(Tick, CHOOSE d \in delays : \A e \in delays : RLeq(d, e))

PressPlay ==
    /\ ops < MaxPresses
    /\ ~state.isPlaying
    /\ state' = PlayAll(state, idCounter + 1)
    /\ idCounter' = idCounter + 1
    /\ ops' = ops + 1
    /\ last' = [type |-> "play"]
    /\ call' = call

PressStop ==
    /\ ops < MaxPresses
    /\ state.isPlaying
    /\ state' = StopAll(state)
    /\ ops' = ops + 1
    /\ last' = [type |-> "stop"]
    /\ UNCHANGED <<idCounter, call>>

\* the bassline selector: setBasslinePattern(e.target.value)
SelectBasslinePattern ==
    /\ ops < MaxPresses
    /\ \E pattern \in BasslinePatterns \ {state.basslinePattern} :
        state' = [state EXCEPT !.basslinePattern = pattern]
    /\ ops' = ops + 1
    /\ last' = [type |-> "pattern"]
    /\ UNCHANGED <<idCounter, call>>

\* the piano roll reports its mutes: setChordsMuted(cm); setBassMuted(bm)
MuteChange ==
    /\ ops < MaxPresses
    /\ \E cm \in BOOLEAN, bm \in BOOLEAN :
        /\ <<cm, bm>> # <<state.chordsMuted, state.bassMuted>>
        /\ state' = [state EXCEPT !.chordsMuted = cm, !.bassMuted = bm]
    /\ ops' = ops + 1
    /\ last' = [type |-> "mute"]
    /\ UNCHANGED <<idCounter, call>>

\* the row is rendered with another progression
ProgressionChanged ==
    /\ ops < MaxPresses
    /\ \E n \in (1..3) \ {Len(state.chords)} :
        state' = [state EXCEPT !.chords = SubSeq(ScenarioChords, 1, n)]
    /\ ops' = ops + 1
    /\ last' = [type |-> "progression"]
    /\ UNCHANGED <<idCounter, call>>

\* the row is rendered with another tempo
TempoChanged ==
    /\ ops < MaxPresses
    /\ \E tempo \in RowTempos \ {state.tempo} :
        state' = [state EXCEPT !.tempo = tempo]
    /\ ops' = ops + 1
    /\ last' = [type |-> "tempo"]
    /\ UNCHANGED <<idCounter, call>>

\* time passes, up to the moment the next timer is due; a gesture may come at
\* any of these moments.  With no timer pending and nothing left of the
\* progression the row does not depend on the clock.
TimePasses ==
    /\ state.timers # {} \/ RLess(RInt(0), state.remaining)
    /\ \A t \in state.timers : RLess(RInt(0), t.delay)
    /\ state' = Elapsed(state, NextDelay(state))
    /\ UNCHANGED <<idCounter, ops, last, call>>

\* a timer that is due fires
FireTimer ==
    \E t \in state.timers :
        /\ t.delay = RInt(0)
        /\ state' = TimerFired(state, t)
        /\ last' = [type |-> "timer", timer |-> t, before |-> state]
        /\ UNCHANGED <<idCounter, ops, call>>

NextPlayback ==
    \/ PressPlay
    \/ PressStop
    \/ SelectBasslinePattern
    \/ MuteChange
    \/ ProgressionChanged
    \/ TempoChanged
    \/ TimePasses
    \/ FireTimer

\* time passes and timers that are due fire
SpecPlayback ==
    InitPlayback /\ [][NextPlayback]_vars /\ WF_vars(TimePasses) /\ WF_vars(FireTimer)

\* C26: after Play is pressed in a progression row, for every combination of
\* chord mute, bass mute, bassline pattern and progression length, isPlaying
\* eventually returns to false without further user input, provided scheduled
\* timers fire
C26_PlaybackEnds == state.isPlaying ~> ~state.isPlaying

\* C28: a reset timer scheduled by one playback never ends a later playback:
\* a reset that finds the row playing was scheduled by the playback the last
\* Play started, unless that playback's last chord has finished as well
C28_ResetEndsOwnPlayback ==
    (last.type = "timer" /\ last.timer.kind = "reset" /\ last.before.isPlaying) =>
        \/ last.timer.playback = idCounter
        \/ last.before.remaining = RInt(0)


----------------------------------------------------------------------------
(* SpecPianoRoll: the full piano roll.  `state` is the component: its React *)
(* state (isPlaying, currentBeat, the mutes), stopRefs.current, its props    *)
(* (chords, basslinePattern, tempo) and the callbacks requestAnimationFrame  *)
(* holds.  Time is in seconds and relative: a callback holds the time since  *)
(* its startTime (performance.now() - startTime) next to what updatePlayhead *)
(* closed over when Play was pressed, the tempo and totalBeats.  A frame is  *)
(* drawn every second, and a gesture comes at a frame or half-way between    *)
(* two frames.  The gestures are bounded by MaxPresses as well.              *)

\* currentBeat = null
NullBeat == <<0, 0>>

\* half the time between two animation frames
HalfFrame == <<1, 2>>

\* a piano roll that has not played yet; sinceFrame counts the half frame
\* periods since the last animation frame
RollState(chords, chordsMuted, bassMuted, basslinePattern) ==
    [isPlaying |-> FALSE, currentBeat |-> NullBeat, stopRefs |-> NoStopHandles,
     chords |-> chords, tempo |-> 60,
     chordsMuted |-> chordsMuted, bassMuted |-> bassMuted,
     basslinePattern |-> basslinePattern, frames |-> <<>>, sinceFrame |-> 0]

\* the bassline patterns the roll is rendered with
RollPatterns == {"none", "walking"}

\* the roll as it mounts: useState(false) for both mutes
InitPianoRoll ==
    /\ state \in {[RollState(SubSeq(ScenarioChords, 1, n), FALSE, FALSE, pattern)
                      EXCEPT !.tempo = tempo] :
                    n \in 1..2, pattern \in RollPatterns, tempo \in RowTempos}
    /\ idCounter = 0
    /\ ops = 0
    /\ last = NoOp
    /\ call = NoCall

\* handlePlay while the roll is not playing; updatePlayhead keeps startTime
\* and the msPerBeat and totalBeats of this render
RollPlay(s, p) ==
    LET bassNotes == IF s.basslinePattern # "none"
                     THEN generateProgressionBassline(s.chords, s.basslinePattern)
                     ELSE <<>>
    IN  [s EXCEPT
            !.isPlaying = TRUE,
            !.currentBeat = RInt(0),
            !.frames = Append(@, [elapsed |-> RInt(0), tempo |-> s.tempo,
                                  totalBeats |-> TotalBeats(s.chords)]),
            !.stopRefs = [chord |-> IF ~s.chordsMuted /\ Len(s.chords) > 0
                                    THEN p ELSE @.chord,
                          bass |-> IF ~s.bassMuted /\ Len(bassNotes) > 0
                                   THEN p ELSE @.bass]]

\* handlePlay while the roll is playing: the stop handles silence the audio
\* (playProgression and playBassline were given no callback and hold no timer)
RollStop(s) == [s EXCEPT !.isPlaying = FALSE, !.currentBeat = NullBeat]

\* updatePlayhead of the playback that callback f belongs to:
\* beat = elapsed / msPerBeat
updatePlayhead(s, f) ==
    LET beat == Rat(f.elapsed[1] * f.tempo, f.elapsed[2] * 60)
    IN  IF RLess(beat, f.totalBeats)
        THEN [s EXCEPT !.currentBeat = beat, !.frames = Append(@, f)]
        ELSE [s EXCEPT !.isPlaying = FALSE, !.currentBeat = NullBeat]

\* the callbacks of one animation frame, run in the order they were requested
RECURSIVE RunFrame(_, _)
RunFrame(s, callbacks) ==
    IF callbacks = <<>> THEN s
    ELSE RunFrame(updatePlayhead(s, Head(callbacks)), Tail(callbacks))

\* the pending callbacks half a frame period later
Later(frames) ==
    [i \in 1..Len(frames) |-> [frames[i] EXCEPT !.elapsed = RAdd(@, HalfFrame)]]

PressRollPlay ==
    /\ ops < MaxPresses
    /\ ~state.isPlaying
    /\ state' = RollPlay(state, idCounter + 1)
    /\ idCounter' = idCounter + 1
    /\ ops' = ops + 1
    /\ last' = [type |-> "play"]
    /\ call' = call

PressRollStop ==
    /\ ops < MaxPresses
    /\ state.isPlaying
    /\ state' = RollStop(state)
    /\ ops' = ops + 1
    /\ last' = [type |-> "stop"]
    /\ UNCHANGED <<idCounter, call>>

\* the Chords button: setChordsMuted(!chordsMuted); `last` stays the last
\* press of Play / Stop
ToggleChordsMuted ==
    /\ ops < MaxPresses
    /\ state' = [state EXCEPT !.chordsMuted = ~@]
    /\ ops' = ops + 1
    /\ UNCHANGED <<idCounter, last, call>>

\* the Bass button, disabled while basslinePattern is 'none':
\* setBassMuted(!bassMuted)
ToggleBassMuted ==
    /\ ops < MaxPresses
    /\ state.basslinePattern # "none"
    /\ state' = [state EXCEPT !.bassMuted = ~@]
    /\ ops' = ops + 1
    /\ UNCHANGED <<idCounter, last, call>>

\* the parent renders the roll with other chords, another bassline pattern or
\* another tempo
RollRendered ==
    /\ ops < MaxPresses
    /\ \E n \in 1..2, pattern \in RollPatterns, tempo \in RowTempos :
        /\ <<n, pattern, tempo>> # <<Len(state.chords), state.basslinePattern, state.tempo>>
        /\ state' = [state EXCEPT !.chords = SubSeq(ScenarioChords, 1, n),
                                  !.basslinePattern = pattern,
                                  !.tempo = tempo]
    /\ ops' = ops + 1
    /\ UNCHANGED <<idCounter, last, call>>

\* half a frame period passes after an animation frame
HalfFramePasses ==
    /\ state.sinceFrame = 0
    /\ state' = [state EXCEPT !.sinceFrame = 1, !.frames = Later(@)]
    /\ UNCHANGED <<idCounter, ops, last, call>>

\* the next animation frame: every callback requested so far runs
AnimationFrame ==
    /\ state.sinceFrame = 1
    /\ state' = RunFrame([state EXCEPT !.sinceFrame = 0, !.frames = <<>>],
                         Later(state.frames))
    /\ UNCHANGED <<idCounter, ops, last, call>>

NextPianoRoll ==
    \/ PressRollPlay
    \/ PressRollStop
    \/ ToggleChordsMuted
    \/ ToggleBassMuted
    \/ RollRendered
    \/ HalfFramePasses
    \/ AnimationFrame

SpecPianoRoll ==
    InitPianoRoll /\ [][NextPianoRoll]_vars
        /\ WF_vars(HalfFramePasses) /\ WF_vars(AnimationFrame)

\* C29: in the full piano roll, after Stop is pressed during playback,
\* currentBeat stays null and isPlaying stays false until Play is pressed
\* again; `last` is the last press of the button
C29_StoppedStaysStopped ==
    last.type = "stop" => (state.currentBeat = NullBeat /\ ~state.isPlaying)


----------------------------------------------------------------------------
(* Chord pattern expander and the MIDI chord track.  The literals 0.9, 0.15  *)
(* and 0.06 are the exact decimals; no beat count multiplied by 128 below    *)
(* lies within a double's rounding error of a half, so Math.round agrees.    *)

\* a * b on beat counts
RMul(a, b) == Rat(a[1] * b[1], a[2] * b[2])

\* [...arr].reverse()
Reverse(seq) == [i \in 1..Len(seq) |-> seq[Len(seq) + 1 - i]]

ChordPatterns == {"sustain", "arpeggio-up", "arpeggio-down", "staccato", "strum"}

\* generateSustainPattern(notes, startBeat, duration)
generateSustainPattern(notes, startBeat, duration) ==
    [i \in 1..Len(notes) |-> BassNote(notes[i], startBeat, duration, RInt(80))]

\* the notes both arpeggio patterns build from the ordered notes, with the
\* velocity of index i given by velocity[i]
ArpeggioNotes(notes, startBeat, duration, velocity) ==
    LET noteCount == Len(notes)
        noteInterval == RMin(Rat(1, 4), Rat(duration[1], duration[2] * noteCount))
        noteDuration == RMul(noteInterval, Rat(9, 10))
        lastNoteDuration == RSub(duration, RTimes(noteInterval, noteCount - 1))
    IN  [i \in 1..noteCount |->
            BassNote(notes[i], RAdd(startBeat, RTimes(noteInterval, i - 1)),
                     IF i = noteCount THEN lastNoteDuration ELSE noteDuration,
                     RInt(velocity[i]))]

\* generateArpeggioUpPattern(notes, startBeat, duration)
generateArpeggioUpPattern(notes, startBeat, duration) ==
    ArpeggioNotes(notes, startBeat, duration,
                  [i \in 1..Len(notes) |-> 75 + (i - 1) * 3])

\* generateArpeggioDownPattern(notes, startBeat, duration)
generateArpeggioDownPattern(notes, startBeat, duration) ==
    ArpeggioNotes(Reverse(notes), startBeat, duration,
                  [i \in 1..Len(notes) |-> 80 - (i - 1) * 2])

\* generateStaccatoPattern(notes, startBeat, duration): the loop from hit i on
RECURSIVE StaccatoLoop(_, _, _, _, _)
StaccatoLoop(notes, startBeat, duration, i, result) ==
    IF i >= RFloor(RTimes(duration, 2)) \/ ~RLess(Rat(i, 2), duration) THEN result
    ELSE StaccatoLoop(notes, startBeat, duration, i + 1,
                      result \o [n \in 1..Len(notes) |->
                                    BassNote(notes[n], RAdd(startBeat, Rat(i, 2)),
                                             Rat(15, 100),
                                             RInt(IF i % 2 = 0 THEN 85 ELSE 65))])

\* generateStaccatoPattern(notes, startBeat, duration)
generateStaccatoPattern(notes, startBeat, duration) ==
    StaccatoLoop(notes, startBeat, duration, 0, <<>>)

\* generateStrumPattern(notes, startBeat, duration, strumAmount); the note of
\* index i reads the (k + i)-th value of the random source
generateStrumPattern(notes, startBeat, duration, strumAmount, rs, k) ==
    LET delayPerNote == RMul(Rat(Abs(strumAmount), 100), Rat(6, 100))
        orderedNotes == IF strumAmount < 0 THEN Reverse(notes) ELSE notes
    IN  [i \in 1..Len(orderedNotes) |->
            BassNote(orderedNotes[i],
                     RAdd(startBeat, RTimes(delayPerNote, i - 1)),
                     RSub(duration, RTimes(delayPerNote, i - 1)),
                     RAdd(RInt(75), Rat(Draw(rs, k + i - 1) * 10, RandDen)))]

\* generateChordWithPattern(chord, pattern, startBeat, strumAmount)
generateChordWithPattern(chord, pattern, startBeat, strumAmount, rs, k) ==
    LET notes == SortAsc(chord.notes)
        duration == chord.durationBeats
    IN  IF pattern = "arpeggio-up" THEN generateArpeggioUpPattern(notes, startBeat, duration)
        ELSE IF pattern = "arpeggio-down"
        THEN generateArpeggioDownPattern(notes, startBeat, duration)
        ELSE IF pattern = "staccato" THEN generateStaccatoPattern(notes, startBeat, duration)
        ELSE IF pattern = "strum"
        THEN generateStrumPattern(notes, startBeat, duration, strumAmount, rs, k)
        ELSE generateSustainPattern(notes, startBeat, duration)

\* generateProgressionChordNotes(chords, pattern, strumAmount): the loop from
\* chord i on
RECURSIVE ProgressionChordNotesLoop(_, _, _, _, _, _, _, _)
ProgressionChordNotesLoop(chords, pattern, strumAmount, i, result, currentBeat, rs, k) ==
    IF i > Len(chords) THEN result
    ELSE ProgressionChordNotesLoop(
             chords, pattern, strumAmount, i + 1,
             result \o generateChordWithPattern(chords[i], pattern, currentBeat,
                                                strumAmount, rs, k),
             RAdd(currentBeat, chords[i].durationBeats), rs,
             IF pattern = "strum" THEN k + Len(chords[i].notes) ELSE k)

\* generateProgressionChordNotes(chords, pattern, strumAmount)
generateProgressionChordNotes(chords, pattern, strumAmount, rs, k) ==
    ProgressionChordNotesLoop(chords, pattern, strumAmount, 1, <<>>, RInt(0), rs, k)

\* Math.round(x) for x >= 0
RRound(x) == RFloor(RAdd(x, Rat(1, 2)))

\* beatsToTicks(beats): Math.round(beats * 128)
beatsToTicks(beats) == RRound(RTimes(beats, 128))

\* progressionToChordTrack: one event per chord, all its notes together
progressionToChordTrack(chords) ==
    [i \in 1..Len(chords) |->
        [pitch |-> chords[i].notes, duration |-> beatsToTicks(chords[i].durationBeats),
         velocity |-> 80, wait |-> 0]]

\* progressionToChordTrackWithPattern: the loop from note i on.  Each event
\* keeps, beside what NoteEvent is given, the value of currentTick when
\* track.addEvent is called (cursor) and, for a note, its noteStartTick.
RECURSIVE ChordTrackLoop(_, _, _, _)
ChordTrackLoop(chordNotes, i, currentTick, events) ==
    IF i > Len(chordNotes) THEN events
    ELSE
        Bind(<<chordNotes[i], beatsToTicks(chordNotes[i].startBeat),
               beatsToTicks(chordNotes[i].durationBeats)>>, LAMBDA in :
        LET note == in[1]
            noteStartTick == in[2]
            noteDurationTicks == in[3]
            waitTicks == noteStartTick - currentTick
            rest == IF noteStartTick > currentTick
                    THEN <<[pitch |-> <<0>>, duration |-> waitTicks, velocity |-> 0,
                            wait |-> waitTicks, cursor |-> currentTick]>>
                    ELSE <<>>
            cursor == IF noteStartTick > currentTick THEN noteStartTick ELSE currentTick
        IN  Bind(<<i + 1, noteStartTick + noteDurationTicks,
                   (events \o rest) \o
                   <<[pitch |-> <<note.midiNote>>, duration |-> noteDurationTicks,
                      velocity |-> RRound(note.velocity), wait |-> 0,
                      cursor |-> cursor, noteStartTick |-> noteStartTick,
                      startBeat |-> note.startBeat]>>>>, LAMBDA next :
            ChordTrackLoop(chordNotes, next[1], next[2], next[3])))

\* progressionToChordTrackWithPattern(progression, tempo, chordPattern, strumAmount)
progressionToChordTrackWithPattern(chords, chordPattern, strumAmount, rs, k) ==
    IF chordPattern = "sustain" THEN progressionToChordTrack(chords)
    ELSE Bind(generateProgressionChordNotes(chords, chordPattern, strumAmount, rs, k),
              LAMBDA chordNotes : ChordTrackLoop(chordNotes, 1, 0, <<>>))

----------------------------------------------------------------------------
(* SpecMidi: the chord track of a progression of two chords *)

CallChordTrack ==
    /\ call = NoCall
    /\ \E d1 \in {Rat(1, 2), RInt(1), Rat(5, 4), RInt(2)},
          d2 \in {Rat(1, 2), RInt(1), Rat(5, 4), RInt(2)},
          chordPattern \in ChordPatterns, strumAmount \in {-100, -50, 0, 50, 100},
          rs \in {<<0>>, <<RandDen - 1>>} :
        \E chords \in {<<[ScenarioChords[1] EXCEPT !.durationBeats = d1],
                         [ScenarioChords[3] EXCEPT !.durationBeats = d2]>>} :
            /\ call' = [fn |-> "progressionToChordTrackWithPattern", chords |-> chords,
                        chordPattern |-> chordPattern, strumAmount |-> strumAmount,
                        result |-> progressionToChordTrackWithPattern(
                                       chords, chordPattern, strumAmount, rs, 1)]
            /\ UNCHANGED <<state, idCounter, ops, last>>

SpecMidi == InitPure /\ [][CallChordTrack]_vars

\* C30: when a chord pattern's note events (arpeggio, staccato, strum) are
\* serialized to a MIDI track, every note is written at tick
\* round(startBeat * 128): when a note event is appended the running tick
\* cursor equals that note's start tick, also for notes that start together
\* or overlap an earlier note
C30_NotesWrittenAtStartTick ==
    (call.fn = "progressionToChordTrackWithPattern" /\ call.chordPattern # "sustain") =>
        \A i \in 1..Len(call.result) :
            call.result[i].velocity > 0 =>
                /\ call.result[i].noteStartTick = RRound(RTimes(call.result[i].startBeat, 128))
                /\ call.result[i].cursor = call.result[i].noteStartTick

====
